---- MODULE Spec2Model ----
(***************************************************************************)
(* Model of the upload pipeline: the POST handler of the upload route      *)
(* (src/app/api/upload/route.ts) and YouTubeClient.uploadVideo /           *)
(* retryUpload (src/unnamed/part_003).                                     *)
(*                                                                         *)
(* One action is one resumption of the async code: everything the handler  *)
(* runs between two awaits happens in a single step.  The synchronous      *)
(* code between awaits is written as operators from a state record to a    *)
(* state record; Commit assigns the record to the variables.               *)
(***************************************************************************)
EXTENDS Integers, Sequences, FiniteSets, TLC

VARIABLES
  pc,            \* the await the request is suspended at
  caller,        \* who called retryUpload: "POST" or "direct"
  form,          \* the multipart form of the request
  maxRetries,    \* retryUpload's maxRetries argument
  playlistId,    \* process.env.YOUTUBE_DEFAULT_PLAYLIST_ID is set
  tokensFile,    \* state of .youtube-tokens.json
  uploadDir,     \* the uploads directory exists
  files,         \* temp files present in the uploads directory
  thumbnailPath, \* thumbnailPath of the request ("" is null)
  events,        \* the events enqueued on the response stream, in order
  steps,         \* the pipeline steps performed, in order
  closed,        \* controller.close() has been called
  closeThrew,    \* controller.close() was called on a closed controller
  attempt,       \* retryUpload's loop variable
  lastError,     \* retryUpload's lastError
  waits,         \* the backoff delays (ms) retryUpload has scheduled
  result,        \* the UploadResult retryUpload returned
  uploadCalls,   \* number of uploadVideo invocations
  inserts,       \* number of videos.insert calls
  created,       \* number of videos.insert calls that succeeded
  videoId,       \* uploadVideo's videoId of the current attempt
  cbCount,       \* number of transport progress callbacks so far
  cbLast,        \* transport progress of the current attempt's last callback
  outcomes,      \* the results the uploadVideo calls have returned, in order
  evAttempt,     \* for each event, the attempt it was sent in (0: outside)
  ffmpegInitialized,   \* videoValidator's process-wide ffmpegInitialized
  videoValidation,     \* POST's videoValidation, once validateVideo returned
  thumbnailValidation, \* POST's thumbnailValidation, likewise
  failedAt,      \* the calls of uploadVideo that failed: attempt, call, error
  call,          \* the library function called on its own, and its arguments
  ret,           \* what that call returned
  nCalls,        \* number of such calls so far
  clock,         \* two concurrent requests: the server's Date.now()
  rpc,           \* where each of the two requests is
  rname,         \* the videoPath of each request ("" before saveFile)
  rattempt,      \* the attempt of retryUpload each request is in
  disk,          \* uploads/: for each file name, the request whose bytes
                 \* it holds (0: no such file)
  accesses,      \* the file operations made so far
  script,        \* the browser and one response: the events the handler sends
  sent,          \* how many of them it has sent
  streamClosed,  \* controller.close() has been called
  wire,          \* the text enqueued and not yet read by the page
  uploadStatus,  \* the page's uploadStatus (None: null)
  reader         \* where the page's read loop is

config == <<caller, form, maxRetries, playlistId, tokensFile>>
library == <<call, ret, nCalls>>
request == <<pc, uploadDir, files, thumbnailPath, events, steps, closed,
             closeThrew, attempt, lastError, waits, result, uploadCalls,
             inserts, created, videoId, cbCount, cbLast, outcomes, evAttempt,
             videoValidation, thumbnailValidation, failedAt>>
concurrent == <<clock, rpc, rname, rattempt, disk, accesses>>
browser == <<script, sent, streamClosed, wire, uploadStatus, reader>>
vars == <<config, request, ffmpegInitialized, library, concurrent, browser>>

----------------------------------------------------------------------------
(* Bounds of the model *)

MaxRetriesBound == 3
MaxProgressEvents == 2
\* number of calls of a library function made one after the other
MaxCalls == 2
\* number of calls of the auth endpoints during one upload request
MaxEndpointCalls == 1
\* number of milliseconds Date.now() takes its values from
MaxClock == 2

(* Values the environment may produce *)
ErrMsgs == {"", "quotaExceeded"}

Absent == "<undefined>"
\* an optional record is a sequence: empty when it is undefined, else holding
\* its value; a list of errors that is undefined is the empty sequence (the
\* code never returns an empty list)
None == <<>>
Some(v) == <<v>>
NoCall == [fn |-> "none"]
VideoFile == "uploads/video_<now>.mp4"
ThumbFile == "uploads/thumbnail_<now>.<ext>"
NoResult == [success |-> FALSE, videoId |-> Absent, videoUrl |-> Absent,
             error |-> Absent]

----------------------------------------------------------------------------
(* The state as a record, and back *)

Cur ==
  [pc |-> pc, uploadDir |-> uploadDir, files |-> files,
   thumbnailPath |-> thumbnailPath, events |-> events, steps |-> steps,
   closed |-> closed, closeThrew |-> closeThrew, attempt |-> attempt,
   lastError |-> lastError, waits |-> waits, result |-> result,
   uploadCalls |-> uploadCalls, inserts |-> inserts, created |-> created,
   videoId |-> videoId, cbCount |-> cbCount, cbLast |-> cbLast,
   outcomes |-> outcomes,
   evAttempt |-> evAttempt, ffmpegInitialized |-> ffmpegInitialized,
   videoValidation |-> videoValidation,
   thumbnailValidation |-> thumbnailValidation, failedAt |-> failedAt]

\* the variables take the values of the state record t, computed once
Commit(t) ==
  \E s \in {t} :
    /\ pc' = s.pc
    /\ uploadDir' = s.uploadDir
    /\ files' = s.files
    /\ thumbnailPath' = s.thumbnailPath
    /\ events' = s.events
    /\ steps' = s.steps
    /\ closed' = s.closed
    /\ closeThrew' = s.closeThrew
    /\ attempt' = s.attempt
    /\ lastError' = s.lastError
    /\ waits' = s.waits
    /\ result' = s.result
    /\ uploadCalls' = s.uploadCalls
    /\ inserts' = s.inserts
    /\ created' = s.created
    /\ videoId' = s.videoId
    /\ cbCount' = s.cbCount
    /\ cbLast' = s.cbLast
    /\ outcomes' = s.outcomes
    /\ evAttempt' = s.evAttempt
    /\ ffmpegInitialized' = s.ffmpegInitialized
    /\ videoValidation' = s.videoValidation
    /\ thumbnailValidation' = s.thumbnailValidation
    /\ failedAt' = s.failedAt
    /\ UNCHANGED <<browser, config, library, concurrent>>

Step(s, name) == [s EXCEPT !.steps = Append(@, name)]

----------------------------------------------------------------------------
(* The events of the stream *)

Ev(stage, progress, message) ==
  [stage |-> stage, progress |-> progress, message |-> message,
   videoId |-> Absent, videoUrl |-> Absent, error |-> Absent]

EvParsing == Ev("Parsing", 5, "Parsing upload data...")
\* the Saving event sent with the stage of the event before it
EvSaving_asParsing == Ev("Parsing", 10, "Saving uploaded files...")

EvSaving == Ev("Saving", 10, "Saving uploaded files...")
EvValidating == Ev("Validating", 20, "Validating video file...")
EvGenerating == Ev("Generating", 30, "Generating metadata...")
\* the Authenticating event sent with an earlier stage's name
EvAuthenticating_asValidating ==
  Ev("Validating", 35, "Authenticating with YouTube...")

EvAuthenticating == Ev("Authenticating", 35, "Authenticating with YouTube...")
EvUploading == Ev("Uploading", 40, "Starting video upload to YouTube...")

\* the rescaling without its offset
Rescale_noOffset(p) == (p * 6) \div 10

\* 40 + progress * 0.6, exact on the multiples of 5
Rescale(p) == 40 + (p * 6) \div 10

\* the progress event carrying the transport progress as it came
EvProgress_raw(p) ==
  Ev("Uploading", p, "Uploading video: " \o ToString(p) \o ".0%")

EvProgress(p) ==
  Ev("Uploading", Rescale(p), "Uploading video: " \o ToString(p) \o ".0%")

EvError(message, error) == [Ev("Error", 0, message) EXCEPT !.error = error]

\* the Complete event without the url of the video
EvComplete_noUrl(r) ==
  [Ev("Complete", 100, "Video uploaded successfully!")
     EXCEPT !.videoId = r.videoId]

EvComplete(r) ==
  [Ev("Complete", 100, "Video uploaded successfully!")
     EXCEPT !.videoId = r.videoId, !.videoUrl = r.videoUrl]

\* send: controller.enqueue of one frame (att: the upload attempt whose
\* progress callback sends it, 0 for the events of the handler itself)
SendAt(s, ev, att) ==
  [s EXCEPT !.events = Append(@, ev), !.evAttempt = Append(@, att)]

Send(s, ev) == SendAt(s, ev, 0)

\* a close that leaves the stream open
Close_noop(s) == s

\* controller.close(): throws on a controller that is already closed
Close(s) ==
  IF s.closed THEN [s EXCEPT !.closeThrew = TRUE]
  ELSE [s EXCEPT !.closed = TRUE]

\* an early Error path that removes the saved temp files before it returns
EarlyError_cleansUp(s, message, error) ==
  [Close(Close(Send(s, EvError(message, error))))
     EXCEPT !.pc = "done", !.files = {}]

\* an Error event followed by controller.close(); return; and the finally
EarlyError(s, message, error) ==
  [Close(Close(Send(s, EvError(message, error)))) EXCEPT !.pc = "done"]

\* an exception in the try block: the catch clause, then the finally
CatchFinally(s, error) ==
  [Close(Send(s, EvError("An unexpected error occurred", error)))
     EXCEPT !.pc = "done"]

----------------------------------------------------------------------------
(* POST, after retryUpload has returned: clean up, terminal event, finally *)

\* the url built for failed results too
ResultEvent_urlAlways(r) ==
  IF r.success THEN EvComplete(r)
  ELSE [EvError("Upload failed", r.error)
          EXCEPT !.videoUrl = "https://www.youtube.com/watch?v=undefined"]

ResultEvent(r) ==
  IF r.success THEN EvComplete(r) ELSE EvError("Upload failed", r.error)

\* fs.unlinkSync(f): throws when f does not exist
UnlinkThrows(s, f) == f \notin s.files

\* an unlinkSync that leaves the file in place
Unlink_noop(s, f) == Step(s, "unlinkSync")

Unlink(s, f) == [Step(s, "unlinkSync") EXCEPT !.files = @ \ {f}]

AfterRetryUpload(s) ==
  IF UnlinkThrows(s, VideoFile)
  THEN CatchFinally(s, "ENOENT: no such file or directory, unlink")
  ELSE LET s1 == Unlink(s, VideoFile) IN
       IF s1.thumbnailPath # "" /\ UnlinkThrows(s1, s1.thumbnailPath)
       THEN CatchFinally(s1, "ENOENT: no such file or directory, unlink")
       ELSE LET s2 == IF s1.thumbnailPath # ""
                      THEN Unlink(s1, s1.thumbnailPath) ELSE s1
            IN [Close(Send(s2, ResultEvent(s2.result))) EXCEPT !.pc = "done"]

----------------------------------------------------------------------------
(* YouTubeClient.retryUpload and uploadVideo *)

\* a fixed delay instead of the exponential one
Delay_fixed(a) == 2000

\* Math.pow(2, attempt) * 1000
Delay(a) == (2 ^ a) * 1000

\* waiting after the last attempt too
NeedsWait_always(a, max) == a <= max

\* if (attempt < maxRetries): wait before the next attempt
NeedsWait(a, max) == a < max

\* an off-by-one loop test
LoopContinues_offByOne(a, max) == a <= max + 1

\* for (...; attempt <= maxRetries; ...)
LoopContinues(a, max) == a <= max

ExhaustedResult(max, err) ==
  [success |-> FALSE, videoId |-> Absent, videoUrl |-> Absent,
   error |-> "Failed after " \o ToString(max) \o " attempts. Last error: "
             \o err]

\* uploadVideo's catch: {success: false, error: error.message}
FailureResult(err) ==
  [success |-> FALSE, videoId |-> Absent, videoUrl |-> Absent, error |-> err]

SuccessResult(id) ==
  [success |-> TRUE, videoId |-> id,
   videoUrl |-> "https://www.youtube.com/watch?v=" \o id, error |-> Absent]

\* retryUpload returns r to its caller
Return(s, r) ==
  LET s1 == [s EXCEPT !.result = r] IN
  IF caller = "POST" THEN AfterRetryUpload(s1)
  ELSE [s1 EXCEPT !.pc = "returned"]

RECURSIVE StartAttempt(_), AttemptFailed(_, _), NextIteration(_)
RECURSIVE CallFailed(_, _, _)

\* uploadVideo up to the await of videos.insert
StartAttempt(s) ==
  LET s1 == [Step(s, "uploadVideo")
               EXCEPT !.uploadCalls = @ + 1, !.cbLast = 0, !.videoId = ""]
  IN IF VideoFile \notin s1.files
     THEN CallFailed(s1, "statSync",
                     "ENOENT: no such file or directory, stat")
     ELSE [Step(s1, "videos.insert")
             EXCEPT !.pc = "videos.insert", !.inserts = @ + 1]

\* uploadVideo returned {success: false, error: err};
\* lastError = result.error || 'Unknown error'
AttemptFailed(s, err) ==
  LET s1 == [s EXCEPT !.lastError = IF err = "" \/ err = Absent
                                    THEN "Unknown error" ELSE err,
                      !.outcomes = Append(@, FailureResult(err))] IN
  IF NeedsWait(s1.attempt, maxRetries)
  THEN [Step(s1, "setTimeout")
          EXCEPT !.pc = "setTimeout", !.waits = Append(@, Delay(s1.attempt))]
  ELSE NextIteration(s1)

\* the calls uploadVideo makes after videos.insert
SecondaryCalls == {"thumbnails.set", "playlistItems.insert"}

\* a call made inside uploadVideo's try block failed with err
Failure(s, name, err) ==
  [s EXCEPT !.failedAt = Append(@, [attempt |-> s.attempt, call |-> name,
                                    error |-> err])]

\* uploadVideo whose catch lets the error of a secondary call through:
\* retryUpload has no try, so its promise rejects
CallFailed_rethrowsSecondary(s, name, err) ==
  IF name \in SecondaryCalls
  THEN [Failure(s, name, err) EXCEPT !.pc = "rejected"]
  ELSE AttemptFailed(Failure(s, name, err), err)

\* uploadVideo's catch: whichever call of the try block threw (statSync,
\* videos.insert, or uploadThumbnail / addToPlaylist rethrowing), the
\* attempt returns {success: false, error}
CallFailed(s, name, err) == AttemptFailed(Failure(s, name, err), err)

\* attempt++ and the loop test
NextIteration(s) ==
  LET s1 == [s EXCEPT !.attempt = @ + 1] IN
  IF LoopContinues(s1.attempt, maxRetries)
  THEN StartAttempt(s1)
  ELSE Return(s1, ExhaustedResult(maxRetries, s1.lastError))

\* retryUpload from its call to its first await
StartRetry(s) ==
  LET s1 == [Step(s, "retryUpload") EXCEPT !.lastError = "", !.attempt = 1]
  IN IF LoopContinues(1, maxRetries)
     THEN StartAttempt(s1)
     ELSE Return(s1, ExhaustedResult(maxRetries, s1.lastError))

\* uploadVideo after the secondary calls: return {success: true, ...}
UploadSucceeded(s) ==
  Return([s EXCEPT !.outcomes = Append(@, SuccessResult(s.videoId))],
         SuccessResult(s.videoId))

\* if (options.playlistId && videoId)
AfterThumbnail(s) ==
  IF playlistId /\ s.videoId # ""
  THEN [Step(s, "playlistItems.insert") EXCEPT !.pc = "playlistItems.insert"]
  ELSE UploadSucceeded(s)

\* videos.insert resolved with id
AfterInsert(s, id) ==
  LET s1 == [s EXCEPT !.created = @ + 1, !.videoId = id] IN
  IF s1.thumbnailPath # "" /\ id # ""
  THEN [Step(s1, "thumbnails.set") EXCEPT !.pc = "thumbnails.set"]
  ELSE AfterThumbnail(s1)

----------------------------------------------------------------------------
(* POST from the Generating event to the call of retryUpload *)

Continue(s) ==
  LET s1 == Step(Send(s, EvGenerating), "generateMetadata") IN
  IF ~form.topic
  THEN CatchFinally(s1, "Cannot read properties of null (reading 'toLowerCase')")
  ELSE LET s2 == Step(Send(s1, EvAuthenticating), "existsSync tokens") IN
       IF tokensFile = "absent"
       THEN EarlyError(s2, "Authentication required",
                       "Please authenticate with YouTube first")
       ELSE LET s3 == Step(s2, "readFileSync tokens") IN
            IF tokensFile = "corrupt"
            THEN CatchFinally(s3, "Unexpected token in JSON")
            ELSE LET s4 == Send(s3, EvUploading) IN
                 IF form.scheduleTime = "invalid"
                 THEN CatchFinally(s4, "Invalid time value")
                 ELSE StartRetry(s4)

\* GET /api/auth/status: authenticated is true only for a readable file
\* holding both an accessToken and a refreshToken
Authenticated(tokens) == tokens = "valid"

\* saveFile up to its await of file.arrayBuffer()
SaveFileCall(s, present, name, next) ==
  LET s1 == Step(s, "existsSync uploads")
      s2 == IF s1.uploadDir THEN s1
            ELSE [Step(s1, "mkdirSync uploads") EXCEPT !.uploadDir = TRUE]
  IN IF ~present
     THEN CatchFinally(s2, "Cannot read properties of null (reading 'arrayBuffer')")
     ELSE [s2 EXCEPT !.pc = next]

\* the Validating event and the call of validateVideo
ValidateCall(s) ==
  [Step(Send(s, EvValidating), "validateVideo") EXCEPT !.pc = "validateVideo"]

----------------------------------------------------------------------------
(* Text: a string is the sequence of its characters *)

UpperChars == <<"A", "B", "C", "D", "E", "F", "G", "H", "I", "J", "K", "L",
    "M", "N", "O", "P", "Q", "R", "S", "T", "U", "V", "W", "X", "Y", "Z">>
LowerChars == <<"a", "b", "c", "d", "e", "f", "g", "h", "i", "j", "k", "l",
    "m", "n", "o", "p", "q", "r", "s", "t", "u", "v", "w", "x", "y", "z">>
DigitChars == <<"0", "1", "2", "3", "4", "5", "6", "7", "8", "9">>

IndexIn(seq, c) == CHOOSE i \in 1..Len(seq) : seq[i] = c

UpperSet == {UpperChars[i] : i \in 1..Len(UpperChars)}
LowerOf == [c \in UpperSet |-> LowerChars[IndexIn(UpperChars, c)]]

\* String.prototype.toLowerCase, one character
LowerChar(c) == IF c \in UpperSet THEN LowerOf[c] ELSE c

ToLowerCase(str) == [i \in 1..Len(str) |-> LowerChar(str[i])]

\* String.prototype.includes (and indexOf: 0 when there is no occurrence)
OccursAt(str, sub, i) ==
  /\ i + Len(sub) - 1 <= Len(str)
  /\ \A k \in 1..Len(sub) : str[i + k - 1] = sub[k]

Includes(str, sub) == \E i \in 1..(Len(str) + 1) : OccursAt(str, sub, i)

IndexOf(str, sub) ==
  IF Includes(str, sub)
  THEN CHOOSE i \in 1..(Len(str) + 1) :
         /\ OccursAt(str, sub, i)
         /\ \A j \in 1..(i - 1) : ~OccursAt(str, sub, j)
  ELSE 0

\* a number written in decimal, as template literals write it
RECURSIVE DigitsOf(_)
DigitsOf(n) ==
  IF n < 10 THEN <<DigitChars[n + 1]>>
  ELSE DigitsOf(n \div 10) \o <<DigitChars[(n % 10) + 1]>>

\* Number(str): the value of a decimal numeral, 0 for the empty string,
\* NaN for anything else
NaN == -1

RECURSIVE DecimalValue(_)
DecimalValue(str) ==
  IF str = <<>> THEN 0
  ELSE 10 * DecimalValue(SubSeq(str, 1, Len(str) - 1))
       + (IndexIn(DigitChars, str[Len(str)]) - 1)

Number(str) ==
  IF \A i \in 1..Len(str) :
       \E j \in 1..Len(DigitChars) : DigitChars[j] = str[i]
  THEN DecimalValue(str) ELSE NaN

----------------------------------------------------------------------------
(* videoValidator: initFfmpeg, validateVideo, validateThumbnail *)

\* initFfmpeg: the value of ffmpegInitialized after the call, given whether
\* the two dynamic imports succeed
initFfmpeg(initialized, available) ==
  IF initialized THEN TRUE ELSE available

\* getVideoMetadata's resolve value for a probe that found a video stream
\* (bitrate, fps and the codec names are passed through and not checked)
getVideoMetadata(probe) ==
  [duration |-> probe.duration,
   width |-> probe.width,
   height |-> probe.height,
   aspectRatio |-> IF probe.display_aspect_ratio # <<>>
                   THEN probe.display_aspect_ratio
                   ELSE DigitsOf(probe.width) \o <<":">> \o DigitsOf(probe.height),
   hasAudio |-> probe.hasAudioStream,
   format |-> probe.format_name]

\* ratio.split(':'): its first two parts (NoPart when there is no second)
NoPart == <<"<undefined>">>

SplitFirst(ratio) ==
  LET c == IndexOf(ratio, <<":">>) IN
  IF c = 0 THEN ratio ELSE SubSeq(ratio, 1, c - 1)

SplitSecond(ratio) ==
  LET c == IndexOf(ratio, <<":">>) IN
  IF c = 0 THEN NoPart ELSE SplitFirst(SubSeq(ratio, c + 1, Len(ratio)))

\* the check with width and height swapped
AspectOk_swapped(ratio) ==
  LET w == Number(SplitFirst(ratio))
      h == IF SplitSecond(ratio) = NoPart THEN NaN
           ELSE Number(SplitSecond(ratio))
  IN /\ w # NaN
     /\ h # NaN
     /\ w > 0
     /\ LET d == 9 * h - 16 * w IN 100 * (IF d < 0 THEN -d ELSE d) < 9 * w

\* Math.abs(w / h - 16 / 9) < 0.01, false when w / h is not a finite number
AspectOk(ratio) ==
  LET w == Number(SplitFirst(ratio))
      h == IF SplitSecond(ratio) = NoPart THEN NaN
           ELSE Number(SplitSecond(ratio))
  IN /\ w # NaN
     /\ h # NaN
     /\ h > 0
     /\ LET d == 9 * w - 16 * h IN 100 * (IF d < 0 THEN -d ELSE d) < 9 * h

Mp4 == <<"m", "p", "4">>

\* the duration bounds of the schema
MinDuration == 300
MaxDuration == 600
MinWidth == 1920
MinHeight == 1080

\* z.string().toLowerCase().includes('mp4')
FormatOk(format) == Includes(ToLowerCase(format), Mp4)

\* the upper duration bound not enforced
DurationOk_noMax(duration) == duration >= MinDuration

\* z.number().min(300).max(600)
DurationOk(duration) == duration >= MinDuration /\ duration <= MaxDuration

\* VideoValidationSchema.safeParse(metadata), mapped to
\* `${err.path.join('.')}: ${err.message}`, in the order of the schema's keys
SchemaErrors(m) ==
  (IF DurationOk(m.duration) THEN <<>>
   ELSE IF m.duration < MinDuration
        THEN <<"duration: Number must be greater than or equal to 300">>
        ELSE <<"duration: Number must be less than or equal to 600">>)
  \o (IF m.width >= MinWidth THEN <<>>
      ELSE <<"width: Number must be greater than or equal to 1920">>)
  \o (IF m.height >= MinHeight THEN <<>>
      ELSE <<"height: Number must be greater than or equal to 1080">>)
  \o (IF AspectOk(m.aspectRatio) THEN <<>>
      ELSE <<"aspectRatio: Aspect ratio must be 16:9">>)
  \o (IF m.hasAudio THEN <<>> ELSE <<"hasAudio: Video must have audio">>)
  \o (IF FormatOk(m.format) THEN <<>>
      ELSE <<"format: Invalid input: must include \"mp4\"">>)

\* the unavailable dependency treated as a failed validation
SkippedValidation_blocks ==
  [valid |-> FALSE, metadata |-> None, errors |-> <<"FFmpeg not available">>,
   probed |-> FALSE]

\* return { valid: true } when ffmpeg is not initialized
SkippedValidation ==
  [valid |-> TRUE, metadata |-> None, errors |-> None, probed |-> FALSE]

\* validateVideo after initFfmpeg: ready is ffmpegInitialized; probed
\* records whether ffprobe was run
validateVideo(ready, probe) ==
  IF ~ready THEN SkippedValidation
  ELSE IF probe.err # ""
  THEN [valid |-> FALSE, metadata |-> None, errors |-> <<probe.err>>,
        probed |-> TRUE]
  ELSE IF ~probe.hasVideoStream
  THEN [valid |-> FALSE, metadata |-> None,
        errors |-> <<"No video stream found">>, probed |-> TRUE]
  ELSE LET m == getVideoMetadata(probe)
           errors == SchemaErrors(m)
       IN IF errors # <<>>
          THEN [valid |-> FALSE, metadata |-> None, errors |-> errors,
                probed |-> TRUE]
          ELSE [valid |-> TRUE, metadata |-> Some(m), errors |-> None,
                probed |-> TRUE]

\* 2 * 1024 * 1024
MaxThumbnailBytes == 2 * 1024 * 1024

ThumbnailFormats == {"jpeg", "jpg", "png"}

\* the size check skipped once the resolution check has failed
ThumbnailErrors_shortCircuit(image) ==
  IF image.width # 1280 \/ image.height # 720
  THEN <<"Thumbnail must be 1280x720 resolution">>
  ELSE (IF image.size > MaxThumbnailBytes
        THEN <<"Thumbnail must be under 2MB">> ELSE <<>>)
       \o (IF image.format \notin ThumbnailFormats
           THEN <<"Thumbnail must be JPG or PNG format">> ELSE <<>>)

\* the three checks of validateThumbnail, each pushing its error
ThumbnailErrors(image) ==
  (IF image.width # 1280 \/ image.height # 720
   THEN <<"Thumbnail must be 1280x720 resolution">> ELSE <<>>)
  \o (IF image.size > MaxThumbnailBytes
      THEN <<"Thumbnail must be under 2MB">> ELSE <<>>)
  \o (IF image.format \notin ThumbnailFormats
      THEN <<"Thumbnail must be JPG or PNG format">> ELSE <<>>)

\* validateThumbnail: image is what sharp and fs.stat report, or the error
\* one of them throws
validateThumbnail(image) ==
  IF image.err # ""
  THEN [valid |-> FALSE, errors |-> <<image.err>>]
  ELSE LET errors == ThumbnailErrors(image) IN
       IF Len(errors) > 0
       THEN [valid |-> FALSE, errors |-> errors]
       ELSE [valid |-> TRUE, errors |-> None]

\* errors?.join(', ')
RECURSIVE Join(_)
Join(errors) ==
  IF errors = None THEN Absent
  ELSE IF Len(errors) = 1 THEN errors[1]
  ELSE errors[1] \o ", " \o Join(Tail(errors))

----------------------------------------------------------------------------
(* What ffprobe, sharp and fs.stat may report *)

Probe(err, hasVideo, duration, width, height, dar, hasAudio, format) ==
  [err |-> err, hasVideoStream |-> hasVideo, duration |-> duration,
   width |-> width, height |-> height, display_aspect_ratio |-> dar,
   hasAudioStream |-> hasAudio, format_name |-> format]

Ratio16x9 == <<"1", "6", ":", "9">>
Ratio4x3 == <<"4", ":", "3">>
FormatMp4 == <<"m", "o", "v", ",", "m", "p", "4", ",", "m", "4", "a", ",",
    "3", "g", "p", ",", "3", "g", "2", ",", "m", "j", "2">>
FormatWebm == <<"m", "a", "t", "r", "o", "s", "k", "a", ",", "w", "e", "b",
    "m">>

GoodProbe == Probe("", TRUE, 450, 1920, 1080, Ratio16x9, TRUE, FormatMp4)
ShortProbe == Probe("", TRUE, 250, 1920, 1080, Ratio16x9, TRUE, FormatMp4)
FailedProbe == Probe("ffprobe exited with code 1", FALSE, 0, 0, 0, <<>>,
                     FALSE, <<>>)

\* the probes of the video of an upload request
RequestProbes ==
  {GoodProbe, ShortProbe, FailedProbe,
   Probe("", TRUE, 450, 1280, 720, <<>>, FALSE, FormatMp4)}

Image(err, width, height, size, format) ==
  [err |-> err, width |-> width, height |-> height, size |-> size,
   format |-> format]

Probes ==
  {Probe("", TRUE, d, w, h, dar, a, f) :
     d \in {250, 300, 450, 600, 601}, w \in {1280, 1920}, h \in {720, 1080},
     dar \in {<<>>, Ratio16x9, Ratio4x3}, a \in BOOLEAN,
     f \in {FormatMp4, FormatWebm}}
  \cup {FailedProbe, Probe("", FALSE, 450, 0, 0, <<>>, TRUE, FormatMp4)}

\* what sharp and fs.stat may report when validateThumbnail is called on
\* its own (sharp names the JPEG format "jpeg"; "" is an undefined format)
Images ==
  {Image("", w, h, sz, f) :
     w \in {1280, 1920}, h \in {720, 1080},
     sz \in {1000000, MaxThumbnailBytes, MaxThumbnailBytes + 1,
             3 * 1024 * 1024},
     f \in {"jpeg", "png", "gif", ""}}
  \cup {Image("Input file contains unsupported image format", 0, 0, 10, "")}

\* the thumbnails of an upload request
RequestImages ==
  {Image("", 1280, 720, 1000000, "png"),
   Image("", 1920, 1080, 3 * 1024 * 1024, "png"),
   Image("Input file contains unsupported image format", 0, 0, 10, "")}

\* if (!videoValidation.valid) taken on no result at all
ValidationFailed_never(v) == FALSE

\* if (!videoValidation.valid), if (!thumbnailValidation.valid)
ValidationFailed(v) == ~v.valid

----------------------------------------------------------------------------
(* metadataGenerator: sanitizeText and generateMetadata.  A character that *)
(* is not ASCII, and the backtick, is written as the name of its UTF-16    *)
(* code unit ("U+0930", "U+0060").                                         *)

MYSTERY_CRIME_TITLES ==
  [hi |-> <<<<"U+0930", "U+0939", "U+0938", "U+094D", "U+092F", "U+092E", "U+092F", "U+0940", " ",
      "{", "t", "o", "p", "i", "c", "}", " ", "-", " ", "U+0938", "U+091A", "U+094D", "U+091A",
      "U+0940", " ", "U+0918", "U+091F", "U+0928", "U+093E", " ", "|", " ", "D", "a", "r", "k",
      " ", "M", "y", "s", "t", "e", "r", "y">>, <<"{", "t", "o", "p", "i", "c", "}", " ", "U+0915",
      "U+093E", " ", "U+0905", "U+0928", "U+0938", "U+0941", "U+0932", "U+091D", "U+093E", " ",
      "U+0930", "U+0939", "U+0938", "U+094D", "U+092F", " ", "|", " ", "T", "r", "u", "e", " ",
      "C", "r", "i", "m", "e", " ", "I", "n", "d", "i", "a">>, <<"U+0916", "U+094C", "U+092B",
      "U+0928", "U+093E", "U+0915", " ", "{", "t", "o", "p", "i", "c", "}", " ", "U+0915",
      "U+0940", " ", "U+0915", "U+0939", "U+093E", "U+0928", "U+0940", " ", "|", " ", "R", "e",
      "a", "l", " ", "C", "r", "i", "m", "e", " ", "S", "t", "o", "r", "y">>,
            <<"U+092D", "U+093E", "U+0930", "U+0924", " ", "U+0915", "U+093E", " ", "U+0938",
                "U+092C", "U+0938", "U+0947", " ", "U+0921", "U+0930", "U+093E", "U+0935",
                "U+0928", "U+093E", " ", "U+0915", "U+0947", "U+0938", ":", " ", "{", "t", "o",
                "p", "i", "c", "}">>, <<"{", "t", "o", "p", "i", "c", "}", " ", "-", " ", "U+091C",
                "U+093F", "U+0938", "U+0947", " ", "U+0938", "U+0941", "U+0928", "U+0915",
                "U+0930", " ", "U+0930", "U+0942", "U+0939", " ", "U+0915", "U+093E", "U+0902",
                "U+092A", " ", "U+091C", "U+093E", "U+090F", " ", "|", " ", "M", "y", "s", "t",
                "e", "r", "y">>, <<"U+0905", "U+0938", "U+0932", "U+0940", " ", "U+0905", "U+092A",
                "U+0930", "U+093E", "U+0927", ":", " ", "{", "t", "o", "p", "i", "c", "}", " ",
                "U+0915", "U+093E", " ", "U+0915", "U+093E", "U+0932", "U+093E", " ", "U+0938",
                "U+091A">>>>,
   en |-> <<<<"T", "h", "e", " ", "D", "a", "r", "k", " ", "M", "y", "s", "t", "e", "r", "y", " ",
       "o", "f", " ", "{", "t", "o", "p", "i", "c", "}", " ", "|", " ", "T", "r", "u", "e", " ",
       "C", "r", "i", "m", "e">>, <<"U", "n", "s", "o", "l", "v", "e", "d", ":", " ", "T", "h",
       "e", " ", "{", "t", "o", "p", "i", "c", "}", " ", "C", "a", "s", "e", " ", "|", " ", "C",
       "r", "i", "m", "e", " ", "D", "o", "c", "u", "m", "e", "n", "t", "a", "r", "y">>, <<"{",
       "t", "o", "p", "i", "c", "}", " ", "-", " ", "A", " ", "C", "h", "i", "l", "l", "i", "n",
       "g", " ", "T", "r", "u", "e", " ", "S", "t", "o", "r", "y">>,
            <<"I", "n", "d", "i", "a", "'", "s", " ", "M", "o", "s", "t", " ", "M", "y", "s", "t",
                "e", "r", "i", "o", "u", "s", " ", "C", "a", "s", "e", ":", " ", "{", "t", "o",
                "p", "i", "c", "}">>, <<"T", "h", "e", " ", "H", "a", "u", "n", "t", "i", "n", "g",
                " ", "T", "r", "u", "t", "h", " ", "B", "e", "h", "i", "n", "d", " ", "{", "t",
                "o", "p", "i", "c", "}">>, <<"D", "a", "r", "k", " ", "S", "e", "c", "r", "e", "t",
                "s", ":", " ", "T", "h", "e", " ", "{", "t", "o", "p", "i", "c", "}", " ", "I",
                "n", "v", "e", "s", "t", "i", "g", "a", "t", "i", "o", "n">>>>,
   hinglish |-> <<<<"{", "t", "o", "p", "i", "c", "}", " ", "K", "a", " ", "R", "a", "h", "a", "s",
       "y", "a", " ", "|", " ", "D", "a", "r", "k", " ", "M", "y", "s", "t", "e", "r", "y", " ",
       "R", "e", "v", "e", "a", "l", "e", "d">>, <<"B", "h", "a", "r", "a", "t", " ", "K", "i",
       " ", "S", "a", "b", "s", "e", " ", "B", "h", "a", "y", "a", "n", "k", "a", "r", " ", "C",
       "r", "i", "m", "e", ":", " ", "{", "t", "o", "p", "i", "c", "}">>, <<"{", "t", "o", "p",
       "i", "c", "}", " ", "-", " ", "E", "k", " ", "S", "a", "c", "h", "i", " ", "K", "a", "h",
       "a", "n", "i", " ", "|", " ", "T", "r", "u", "e", " ", "C", "r", "i", "m", "e">>,
                  <<"M", "y", "s", "t", "e", "r", "y", " ", "S", "o", "l", "v", "e", "d", ":", " ",
                      "{", "t", "o", "p", "i", "c", "}", " ", "K", "a", " ", "S", "a", "c", "h">>,
                      <<"{", "t", "o", "p", "i", "c", "}", " ", "C", "a", "s", "e", " ", "-", " ",
                      "J", "o", " ", "A", "a", "p", "k", "o", " ", "S", "o", "c", "h", "n", "e",
                      " ", "P", "a", "r", " ", "M", "a", "j", "b", "o", "o", "r", " ", "K", "a",
                      "r", "e", "g", "i">>, <<"R", "e", "a", "l", " ", "C", "r", "i", "m", "e",
                      " ", "S", "t", "o", "r", "y", ":", " ", "{", "t", "o", "p", "i", "c", "}",
                      " ", "K", "a", " ", "A", "n", "t", "h">>>>]

DESCRIPTION_TEMPLATES ==
  [hi |-> <<"{", "s", "u", "m", "m", "a", "r", "y", "}", "\n", "\n", "U+0907", "U+0938", " ",
      "U+0935", "U+0940", "U+0921", "U+093F", "U+092F", "U+094B", " ", "U+092E", "U+0947",
      "U+0902", " ", "U+0939", "U+092E", " ", "{", "t", "o", "p", "i", "c", "}", " ", "U+0915",
      "U+0947", " ", "U+0930", "U+0939", "U+0938", "U+094D", "U+092F", "U+092E", "U+092F", " ",
      "U+092E", "U+093E", "U+092E", "U+0932", "U+0947", " ", "U+0915", "U+094B", " ", "U+0935",
      "U+093F", "U+0938", "U+094D", "U+0924", "U+093E", "U+0930", " ", "U+0938", "U+0947", " ",
      "U+091C", "U+093E", "U+0928", "U+0947", "U+0902", "U+0917", "U+0947", "U+0964", " ",
      "U+092F", "U+0939", " ", "U+090F", "U+0915", " ", "U+0938", "U+091A", "U+094D", "U+091A",
      "U+0940", " ", "U+0918", "U+091F", "U+0928", "U+093E", " ", "U+0939", "U+0948", " ",
      "U+091C", "U+094B", " ", "U+0906", "U+092A", "U+0915", "U+094B", " ", "U+0938", "U+094B",
      "U+091A", "U+0928", "U+0947", " ", "U+092A", "U+0930", " ", "U+092E", "U+091C", "U+092C",
      "U+0942", "U+0930", " ", "U+0915", "U+0930", " ", "U+0926", "U+0947", "U+0917", "U+0940",
      "U+0964", "\n", "\n", "U+26A0", "U+FE0F", " ", "U+0905", "U+0938", "U+094D", "U+0935",
      "U+0940", "U+0915", "U+0930", "U+0923", ":", " ", "U+092F", "U+0939", " ", "U+0935",
      "U+0940", "U+0921", "U+093F", "U+092F", "U+094B", " ", "U+0915", "U+0947", "U+0935",
      "U+0932", " ", "U+0936", "U+0948", "U+0915", "U+094D", "U+0937", "U+093F", "U+0915", " ",
      "U+0914", "U+0930", " ", "U+091C", "U+093E", "U+0917", "U+0930", "U+0942", "U+0915",
      "U+0924", "U+093E", " ", "U+0909", "U+0926", "U+094D", "U+0926", "U+0947", "U+0936",
      "U+094D", "U+092F", "U+094B", "U+0902", " ", "U+0915", "U+0947", " ", "U+0932", "U+093F",
      "U+090F", " ", "U+0939", "U+0948", "U+0964", " ", "U+0939", "U+092E", " ", "U+0915",
      "U+093F", "U+0938", "U+0940", " ", "U+092D", "U+0940", " ", "U+092A", "U+094D", "U+0930",
      "U+0915", "U+093E", "U+0930", " ", "U+0915", "U+0940", " ", "U+0939", "U+093F", "U+0902",
      "U+0938", "U+093E", " ", "U+092F", "U+093E", " ", "U+0905", "U+092A", "U+0930", "U+093E",
      "U+0927", " ", "U+0915", "U+094B", " ", "U+092C", "U+0922", "U+093C", "U+093E", "U+0935",
      "U+093E", " ", "U+0928", "U+0939", "U+0940", "U+0902", " ", "U+0926", "U+0947", "U+0924",
      "U+0947", " ", "U+0939", "U+0948", "U+0902", "U+0964", "\n", "\n", "U+D83D", "U+DD14", " ",
      "U+091A", "U+0948", "U+0928", "U+0932", " ", "U+0915", "U+094B", " ", "U+0938", "U+092C",
      "U+094D", "U+0938", "U+0915", "U+094D", "U+0930", "U+093E", "U+0907", "U+092C", " ",
      "U+0915", "U+0930", "U+0947", "U+0902", " ", "U+0914", "U+0930", " ", "U+0928", "U+094B",
      "U+091F", "U+093F", "U+092B", "U+093F", "U+0915", "U+0947", "U+0936", "U+0928", " ",
      "U+092C", "U+0947", "U+0932", " ", "U+0915", "U+094B", " ", "U+0911", "U+0928", " ",
      "U+0915", "U+0930", "U+0947", "U+0902", " ", "U+0924", "U+093E", "U+0915", "U+093F", " ",
      "U+0906", "U+092A", " ", "U+0910", "U+0938", "U+0947", " ", "U+0914", "U+0930", " ",
      "U+092D", "U+0940", " ", "U+0930", "U+0939", "U+0938", "U+094D", "U+092F", "U+092E",
      "U+092F", " ", "U+092E", "U+093E", "U+092E", "U+0932", "U+094B", "U+0902", " ", "U+0915",
      "U+0947", " ", "U+092C", "U+093E", "U+0930", "U+0947", " ", "U+092E", "U+0947", "U+0902",
      " ", "U+091C", "U+093E", "U+0928", " ", "U+0938", "U+0915", "U+0947", "U+0902", "U+0964",
      "\n", "\n", "#", "T", "r", "u", "e", "C", "r", "i", "m", "e", " ", "#", "M", "y", "s", "t",
      "e", "r", "y", " ", "#", "C", "r", "i", "m", "e", "S", "t", "o", "r", "y", " ", "#", "D",
      "a", "r", "k", "S", "e", "c", "r", "e", "t", "s", " ", "#", "I", "n", "d", "i", "a", "n",
      "C", "r", "i", "m", "e", " ", "#", "D", "o", "c", "u", "m", "e", "n", "t", "a", "r", "y">>,
      en |-> <<"{", "s", "u", "m", "m", "a", "r", "y", "}", "\n", "\n", "I", "n", " ", "t", "h",
      "i", "s", " ", "v", "i", "d", "e", "o", ",", " ", "w", "e", " ", "d", "e", "l", "v", "e",
      " ", "d", "e", "e", "p", " ", "i", "n", "t", "o", " ", "t", "h", "e", " ", "m", "y", "s",
      "t", "e", "r", "i", "o", "u", "s", " ", "c", "a", "s", "e", " ", "o", "f", " ", "{", "t",
      "o", "p", "i", "c", "}", ".", " ", "T", "h", "i", "s", " ", "i", "s", " ", "a", " ", "t",
      "r", "u", "e", " ", "c", "r", "i", "m", "e", " ", "s", "t", "o", "r", "y", " ", "t", "h",
      "a", "t", " ", "w", "i", "l", "l", " ", "l", "e", "a", "v", "e", " ", "y", "o", "u", " ",
      "q", "u", "e", "s", "t", "i", "o", "n", "i", "n", "g", " ", "e", "v", "e", "r", "y", "t",
      "h", "i", "n", "g", ".", "\n", "\n", "U+26A0", "U+FE0F", " ", "D", "i", "s", "c", "l", "a",
      "i", "m", "e", "r", ":", " ", "T", "h", "i", "s", " ", "v", "i", "d", "e", "o", " ", "i",
      "s", " ", "f", "o", "r", " ", "e", "d", "u", "c", "a", "t", "i", "o", "n", "a", "l", " ",
      "a", "n", "d", " ", "a", "w", "a", "r", "e", "n", "e", "s", "s", " ", "p", "u", "r", "p",
      "o", "s", "e", "s", " ", "o", "n", "l", "y", ".", " ", "W", "e", " ", "d", "o", " ", "n",
      "o", "t", " ", "p", "r", "o", "m", "o", "t", "e", " ", "v", "i", "o", "l", "e", "n", "c",
      "e", " ", "o", "r", " ", "c", "r", "i", "m", "i", "n", "a", "l", " ", "a", "c", "t", "i",
      "v", "i", "t", "i", "e", "s", " ", "i", "n", " ", "a", "n", "y", " ", "f", "o", "r", "m",
      ".", "\n", "\n", "U+D83D", "U+DD14", " ", "S", "u", "b", "s", "c", "r", "i", "b", "e", " ",
      "t", "o", " ", "o", "u", "r", " ", "c", "h", "a", "n", "n", "e", "l", " ", "a", "n", "d",
      " ", "t", "u", "r", "n", " ", "o", "n", " ", "n", "o", "t", "i", "f", "i", "c", "a", "t",
      "i", "o", "n", "s", " ", "t", "o", " ", "s", "t", "a", "y", " ", "u", "p", "d", "a", "t",
      "e", "d", " ", "w", "i", "t", "h", " ", "m", "o", "r", "e", " ", "d", "a", "r", "k", " ",
      "m", "y", "s", "t", "e", "r", "i", "e", "s", " ", "a", "n", "d", " ", "c", "r", "i", "m",
      "e", " ", "d", "o", "c", "u", "m", "e", "n", "t", "a", "r", "i", "e", "s", ".", "\n", "\n",
      "#", "T", "r", "u", "e", "C", "r", "i", "m", "e", " ", "#", "M", "y", "s", "t", "e", "r",
      "y", " ", "#", "C", "r", "i", "m", "e", "D", "o", "c", "u", "m", "e", "n", "t", "a", "r",
      "y", " ", "#", "D", "a", "r", "k", "S", "e", "c", "r", "e", "t", "s", " ", "#", "I", "n",
      "v", "e", "s", "t", "i", "g", "a", "t", "i", "o", "n", " ", "#", "R", "e", "a", "l", "S",
      "t", "o", "r", "y">>,
   hinglish |-> <<"{", "s", "u", "m", "m", "a", "r", "y", "}", "\n", "\n", "I", "s", " ", "v", "i",
       "d", "e", "o", " ", "m", "e", "i", "n", " ", "h", "u", "m", " ", "{", "t", "o", "p", "i",
       "c", "}", " ", "k", "e", " ", "m", "y", "s", "t", "e", "r", "i", "o", "u", "s", " ", "c",
       "a", "s", "e", " ", "k", "o", " ", "d", "e", "t", "a", "i", "l", " ", "m", "e", "i", "n",
       " ", "j", "a", "a", "n", "e", "n", "g", "e", ".", " ", "Y", "e", "h", " ", "e", "k", " ",
       "t", "r", "u", "e", " ", "c", "r", "i", "m", "e", " ", "s", "t", "o", "r", "y", " ", "h",
       "a", "i", " ", "j", "o", " ", "a", "a", "p", "k", "o", " ", "s", "h", "o", "c", "k", " ",
       "k", "a", "r", " ", "d", "e", "g", "i", ".", "\n", "\n", "U+26A0", "U+FE0F", " ", "D", "i",
       "s", "c", "l", "a", "i", "m", "e", "r", ":", " ", "Y", "e", "h", " ", "v", "i", "d", "e",
       "o", " ", "s", "i", "r", "f", " ", "e", "d", "u", "c", "a", "t", "i", "o", "n", "a", "l",
       " ", "a", "u", "r", " ", "a", "w", "a", "r", "e", "n", "e", "s", "s", " ", "p", "u", "r",
       "p", "o", "s", "e", " ", "k", "e", " ", "l", "i", "y", "e", " ", "h", "a", "i", ".", " ",
       "H", "u", "m", " ", "k", "i", "s", "i", " ", "b", "h", "i", " ", "t", "a", "r", "a", "h",
       " ", "k", "i", " ", "v", "i", "o", "l", "e", "n", "c", "e", " ", "y", "a", " ", "c", "r",
       "i", "m", "e", " ", "k", "o", " ", "p", "r", "o", "m", "o", "t", "e", " ", "n", "a", "h",
       "i", " ", "k", "a", "r", "t", "e", ".", "\n", "\n", "U+D83D", "U+DD14", " ", "C", "h", "a",
       "n", "n", "e", "l", " ", "k", "o", " ", "s", "u", "b", "s", "c", "r", "i", "b", "e", " ",
       "k", "a", "r", "e", "i", "n", " ", "a", "u", "r", " ", "n", "o", "t", "i", "f", "i", "c",
       "a", "t", "i", "o", "n", " ", "b", "e", "l", "l", " ", "o", "n", " ", "k", "a", "r", "e",
       "i", "n", " ", "t", "a", "a", "k", "i", " ", "a", "a", "p", " ", "a", "u", "r", " ", "b",
       "h", "i", " ", "d", "a", "r", "k", " ", "m", "y", "s", "t", "e", "r", "i", "e", "s", " ",
       "a", "u", "r", " ", "c", "r", "i", "m", "e", " ", "s", "t", "o", "r", "i", "e", "s", " ",
       "d", "e", "k", "h", " ", "s", "a", "k", "e", "i", "n", ".", "\n", "\n", "#", "T", "r", "u",
       "e", "C", "r", "i", "m", "e", " ", "#", "M", "y", "s", "t", "e", "r", "y", " ", "#", "C",
       "r", "i", "m", "e", "S", "t", "o", "r", "y", " ", "#", "D", "a", "r", "k", "S", "e", "c",
       "r", "e", "t", "s", " ", "#", "I", "n", "v", "e", "s", "t", "i", "g", "a", "t", "i", "o",
       "n", " ", "#", "I", "n", "d", "i", "a", "n", "C", "r", "i", "m", "e">>]

COMMON_TAGS ==
  <<<<"t", "r", "u", "e", " ", "c", "r", "i", "m", "e">>,
    <<"m", "y", "s", "t", "e", "r", "y">>,
    <<"c", "r", "i", "m", "e", " ", "d", "o", "c", "u", "m", "e", "n", "t",
      "a", "r", "y">>,
    <<"d", "a", "r", "k", " ", "s", "e", "c", "r", "e", "t", "s">>,
    <<"u", "n", "s", "o", "l", "v", "e", "d", " ", "m", "y", "s", "t", "e",
      "r", "y">>,
    <<"i", "n", "v", "e", "s", "t", "i", "g", "a", "t", "i", "o", "n">>,
    <<"c", "r", "i", "m", "e", " ", "s", "t", "o", "r", "y">>,
    <<"r", "e", "a", "l", " ", "c", "r", "i", "m", "e">>,
    <<"m", "y", "s", "t", "e", "r", "y", " ", "s", "o", "l", "v", "e", "d">>,
    <<"c", "r", "i", "m", "e", " ", "i", "n", "v", "e", "s", "t", "i", "g",
      "a", "t", "i", "o", "n">>>>

RESTRICTED_WORDS ==
  <<<<"m", "u", "r", "d", "e", "r">>,
    <<"k", "i", "l", "l", "e", "d">>,
    <<"b", "l", "o", "o", "d">>,
    <<"d", "e", "a", "t", "h">>,
    <<"v", "i", "o", "l", "e", "n", "c", "e">>,
    <<"a", "s", "s", "a", "u", "l", "t">>,
    <<"b", "r", "u", "t", "a", "l">>,
    <<"t", "o", "r", "t", "u", "r", "e">>,
    <<"s", "u", "i", "c", "i", "d", "e">>,
    <<"g", "r", "a", "p", "h", "i", "c">>>>

\* \w of a regular expression without the u flag
WordChars ==
  UpperSet \cup {LowerChars[i] : i \in 1..Len(LowerChars)}
  \cup {DigitChars[i] : i \in 1..Len(DigitChars)} \cup {"_"}

IsWordChar(c) == c \in WordChars

\* the match of the word without the i flag
MatchAt_caseSensitive(text, word, j) ==
  /\ j + Len(word) - 1 <= Len(text)
  /\ \A k \in 1..Len(word) : text[j + k - 1] = word[k]
  /\ j = 1 \/ ~IsWordChar(text[j - 1])
  /\ j + Len(word) > Len(text) \/ ~IsWordChar(text[j + Len(word)])

\* new RegExp(`\\b${word}\\b`, 'gi') matches at position j of text (word is
\* made of lower-case word characters only)
MatchAt(text, word, j) ==
  /\ j + Len(word) - 1 <= Len(text)
  /\ \A k \in 1..Len(word) : LowerChar(text[j + k - 1]) = word[k]
  /\ j = 1 \/ ~IsWordChar(text[j - 1])
  /\ j + Len(word) > Len(text) \/ ~IsWordChar(text[j + Len(word)])

\* sanitized.replace(regex, match => match.charAt(0) + '*'.repeat(...)):
\* the matches of one word cannot overlap, so a character is replaced by
\* '*' exactly when a match starts before it and covers it
MaskWord(text, word) ==
  LET starts == {j \in 1..Len(text) : MatchAt(text, word, j)} IN
  IF starts = {} THEN text
  ELSE SubSeq([i \in 1..Len(text) |->
                 IF \E j \in starts : j < i /\ i < j + Len(word)
                 THEN "*" ELSE text[i]], 1, Len(text))

\* RESTRICTED_WORDS.forEach from the k-th word on
RECURSIVE SanitizeFrom(_, _)
SanitizeFrom(text, k) ==
  IF k > Len(RESTRICTED_WORDS) THEN text
  ELSE SanitizeFrom(MaskWord(text, RESTRICTED_WORDS[k]), k + 1)

sanitizeText(text) == SanitizeFrom(text, 1)

\* the replacement string of String.prototype.replace with its patterns
\* expanded: $$ is "$", $& the match, $` the text before the match, $' the
\* text after it (a pattern without capture groups: $1 is left as it is)
RECURSIVE GetSubstitution(_, _, _, _)
GetSubstitution(replacement, matched, before, after) ==
  IF replacement = <<>> THEN <<>>
  ELSE IF Len(replacement) >= 2 /\ replacement[1] = "$"
          /\ replacement[2] \in {"$", "&", "U+0060", "'"}
  THEN (CASE replacement[2] = "$" -> <<"$">>
          [] replacement[2] = "&" -> matched
          [] replacement[2] = "U+0060" -> before
          [] replacement[2] = "'" -> after)
       \o GetSubstitution(SubSeq(replacement, 3, Len(replacement)),
                          matched, before, after)
  ELSE <<replacement[1]>>
       \o GetSubstitution(Tail(replacement), matched, before, after)

\* str.replace(pattern, replacement) with a string pattern: the first
\* occurrence only
Replace(str, pattern, replacement) ==
  LET i == IndexOf(str, pattern) IN
  IF i = 0 THEN str
  ELSE LET before == SubSeq(str, 1, i - 1)
           after == SubSeq(str, i + Len(pattern), Len(str))
       IN before \o GetSubstitution(replacement, pattern, before, after)
          \o after

\* str.replace(/pattern/g, replacement) for a pattern that matches itself
\* only: every occurrence from position from on, left to right
RECURSIVE ReplaceAllFrom(_, _, _, _)
ReplaceAllFrom(str, pattern, replacement, from) ==
  LET rest == SubSeq(str, from, Len(str))
      i == IndexOf(rest, pattern)
  IN IF i = 0 THEN rest
     ELSE LET at == from + i - 1
              before == SubSeq(str, 1, at - 1)
              after == SubSeq(str, at + Len(pattern), Len(str))
          IN SubSeq(str, from, at - 1)
             \o GetSubstitution(replacement, pattern, before, after)
             \o ReplaceAllFrom(str, pattern, replacement, at + Len(pattern))

\* titleTemplate.replace('{topic}', topic), before sanitizeText
RawTitle(topic, language, pick) ==
  Replace(MYSTERY_CRIME_TITLES[language][pick],
          <<"{", "t", "o", "p", "i", "c", "}">>, topic)

\* descriptionTemplate.replace(/{topic}/g, topic).replace('{summary}',
\* summary), before sanitizeText
RawDescription(topic, summary, language) ==
  Replace(ReplaceAllFrom(DESCRIPTION_TEMPLATES[language],
                         <<"{", "t", "o", "p", "i", "c", "}">>, topic, 1),
          <<"{", "s", "u", "m", "m", "a", "r", "y", "}">>, summary)

\* [...new Set(list)]: the first occurrence of each value, in order
RECURSIVE UniqueFrom(_, _)
UniqueFrom(list, i) ==
  IF i > Len(list) THEN <<>>
  ELSE (IF \E j \in 1..(i - 1) : list[j] = list[i] THEN <<>>
        ELSE <<list[i]>>)
       \o UniqueFrom(list, i + 1)

\* the list the tags are taken from
TagCandidates(topic, language, customTags) ==
  COMMON_TAGS \o customTags
  \o <<SubSeq(ToLowerCase(topic), 1, Len(topic)),
       topic \o <<" ", "c", "a", "s", "e">>,
       IF language = "hi"
       THEN <<"c", "r", "i", "m", "e", " ", "h", "i", "n", "d", "i">>
       ELSE <<>>,
       IF language = "en"
       THEN <<"c", "r", "i", "m", "e", " ", "e", "n", "g", "l", "i", "s", "h">>
       ELSE <<>>,
       IF language = "hinglish"
       THEN <<"c", "r", "i", "m", "e", " ", "h", "i", "n", "g", "l", "i", "s",
              "h">>
       ELSE <<>>>>

\* generateMetadata; pick is the index Math.random chooses among the title
\* templates of the language
generateMetadata(topic, summary, language, pick, customTags) ==
  [title |-> sanitizeText(RawTitle(topic, language, pick)),
   description |-> sanitizeText(RawDescription(topic, summary, language)),
   tags |-> SelectSeq(UniqueFrom(TagCandidates(topic, language, customTags),
                                 1),
                      LAMBDA tag : tag # <<>>),
   language |-> language]

\* the calls of generateMetadata: any topic, summary, language, template
\* choice and custom tags
MetadataCalls ==
  [fn : {"generateMetadata"},
   topic :
     {<<>>,
      <<"M", "u", "r", "d", "e", "r">>,
      <<"b", "l", "o", "o", "d", "-", "b", "a", "t", "h", " ", "m", "u", "r",
        "d", "e", "r", "s">>,
      <<"$", "&">>,
      <<"m", "y", "s", "t", "e", "r", "y">>,
      <<"D", "e", "a", "t", "h", "_", "x", " ", "$", "'", " ", "t", "o", "r",
        "t", "u", "r", "e">>},
   summary :
     {<<"S", "h", "e", " ", "w", "a", "s", " ", "K", "I", "L", "L", "E", "D",
        ";", " ", "b", "l", "o", "o", "d", "_", "d", "e", "a", "t", "h", ".">>,
      <<"$", "U+0060", " ", "S", "u", "i", "c", "i", "d", "e">>},
   language : {"hi", "en", "hinglish"},
   pick : 1..6,
   customTags :
     {<<>>,
      <<<<"m", "y", "s", "t", "e", "r", "y">>,
        <<>>,
        <<"c", "o", "l", "d", " ", "c", "a", "s", "e">>,
        <<"c", "o", "l", "d", " ", "c", "a", "s", "e">>>>}]

----------------------------------------------------------------------------
(* The actions: one per resumption of the handler *)

POST_start ==
  /\ pc = "start"
  /\ Commit([Step(Send(Cur, EvParsing), "parseFormData")
               EXCEPT !.pc = "parseFormData"])

parseFormData_done ==
  /\ pc = "parseFormData"
  /\ \E ok \in BOOLEAN :
       IF ~ok
       THEN Commit(CatchFinally(Cur, "Failed to parse body as FormData"))
       ELSE Commit(SaveFileCall(Send(Cur, EvSaving), form.video, VideoFile,
                                "saveFile video"))

saveFile_video_done ==
  /\ pc = "saveFile video"
  /\ \E ok \in BOOLEAN :
       LET s1 == Step(Cur, "writeFileSync video") IN
       IF ~ok
       THEN Commit(CatchFinally(s1, "ENOSPC: no space left on device, write"))
       ELSE LET s2 == [s1 EXCEPT !.files = @ \cup {VideoFile}] IN
            IF form.thumbnail
            THEN Commit(SaveFileCall(s2, TRUE, ThumbFile, "saveFile thumbnail"))
            ELSE Commit(ValidateCall(s2))

saveFile_thumbnail_done ==
  /\ pc = "saveFile thumbnail"
  /\ \E ok \in BOOLEAN :
       LET s1 == Step(Cur, "writeFileSync thumbnail") IN
       IF ~ok
       THEN Commit(CatchFinally(s1, "ENOSPC: no space left on device, write"))
       ELSE Commit(ValidateCall([s1 EXCEPT !.files = @ \cup {ThumbFile},
                                           !.thumbnailPath = ThumbFile]))

validateVideo_done ==
  /\ pc = "validateVideo"
  /\ \E available \in BOOLEAN, probe \in RequestProbes :
       LET ready == initFfmpeg(ffmpegInitialized, available)
           v == validateVideo(ready, probe)
           s == [Cur EXCEPT !.ffmpegInitialized = ready,
                            !.videoValidation = Some(v)]
       IN IF ValidationFailed(v)
          THEN Commit(EarlyError(s, "Video validation failed", Join(v.errors)))
          ELSE IF thumbnailPath # ""
               THEN Commit([Step(Send(s, Ev("Validating", 25,
                                            "Validating thumbnail...")),
                                 "validateThumbnail")
                              EXCEPT !.pc = "validateThumbnail"])
               ELSE Commit(Continue(s))

validateThumbnail_done ==
  /\ pc = "validateThumbnail"
  /\ \E image \in RequestImages :
       LET v == validateThumbnail(image)
           s == [Cur EXCEPT !.thumbnailValidation = Some(v)]
       IN IF ValidationFailed(v)
          THEN Commit(EarlyError(s, "Thumbnail validation failed",
                                 Join(v.errors)))
          ELSE Commit(Continue(s))

retryUpload_call ==
  /\ pc = "retryUpload"
  /\ Commit(StartRetry(Cur))

onUploadProgress ==
  /\ pc = "videos.insert"
  /\ cbCount < MaxProgressEvents
  /\ \E p \in {0, 50, 100} :
       /\ p >= cbLast
       /\ Commit([SendAt(Cur, EvProgress(p), attempt)
                    EXCEPT !.cbCount = @ + 1, !.cbLast = p])

videos_insert_done ==
  /\ pc = "videos.insert"
  /\ \/ /\ tokensFile = "valid"
        \* the platform gives every created video a fresh id
        /\ Commit(AfterInsert(Cur, "vid" \o ToString(created + 1)))
     \/ \E err \in ErrMsgs : Commit(CallFailed(Cur, "videos.insert", err))

thumbnails_set_done ==
  /\ pc = "thumbnails.set"
  /\ \/ Commit(AfterThumbnail(Cur))
     \/ \E err \in ErrMsgs : Commit(CallFailed(Cur, "thumbnails.set", err))

playlistItems_insert_done ==
  /\ pc = "playlistItems.insert"
  /\ \/ Commit(UploadSucceeded(Cur))
     \/ \E err \in ErrMsgs :
          Commit(CallFailed(Cur, "playlistItems.insert", err))

setTimeout_done ==
  /\ pc = "setTimeout"
  /\ Commit(NextIteration(Cur))

----------------------------------------------------------------------------
(* Specifications *)

\* route.ts passes maxRetries = 3
RouteMaxRetries == 3

InitCommon ==
  /\ events = <<>>
  /\ evAttempt = <<>>
  /\ steps = <<>>
  /\ closed = FALSE
  /\ closeThrew = FALSE
  /\ attempt = 0
  /\ lastError = ""
  /\ waits = <<>>
  /\ result = NoResult
  /\ uploadCalls = 0
  /\ inserts = 0
  /\ created = 0
  /\ videoId = ""
  /\ cbCount = 0
  /\ cbLast = 0
  /\ outcomes = <<>>
  /\ videoValidation = None
  /\ thumbnailValidation = None
  /\ failedAt = <<>>
  /\ playlistId \in BOOLEAN
  /\ tokensFile \in {"absent", "valid", "noTokens", "corrupt"}

\* the two requests of SpecTwo, and the file names Date.now() can give
Requests == {1, 2}
VideoName(now) == "uploads/video_" \o ToString(now) \o ".mp4"
Names == {VideoName(now) : now \in 1..MaxClock}

\* no pair of concurrent requests is running
NoConcurrentRequests ==
  /\ clock = 1
  /\ rpc = [r \in Requests |-> "idle"]
  /\ rname = [r \in Requests |-> ""]
  /\ rattempt = [r \in Requests |-> 0]
  /\ disk = [n \in Names |-> 0]
  /\ accesses = {}

\* no page reads a response
NoBrowser ==
  /\ script = <<>>
  /\ sent = 0
  /\ streamClosed = FALSE
  /\ wire = <<>>
  /\ uploadStatus = None
  /\ reader = "idle"

\* no library function is called on its own
NoLibraryCall ==
  /\ call = NoCall
  /\ ret = NoCall
  /\ nCalls = 0

\* one upload request arrives
Init ==
  /\ InitCommon
  /\ NoLibraryCall
  /\ NoBrowser
  /\ NoConcurrentRequests
  /\ pc = "start"
  /\ caller = "POST"
  /\ form \in [video : BOOLEAN, thumbnail : BOOLEAN, topic : BOOLEAN,
               summary : BOOLEAN, scheduleTime : {"none", "invalid"}]
  /\ maxRetries = RouteMaxRetries
  /\ uploadDir \in BOOLEAN
  /\ files = {}
  /\ thumbnailPath = ""
  /\ ffmpegInitialized = FALSE

RetryActions ==
  \/ onUploadProgress
  \/ videos_insert_done
  \/ thumbnails_set_done
  \/ playlistItems_insert_done
  \/ setTimeout_done

Next ==
  \/ POST_start
  \/ parseFormData_done
  \/ saveFile_video_done
  \/ saveFile_thumbnail_done
  \/ validateVideo_done
  \/ validateThumbnail_done
  \/ RetryActions

Spec == Init /\ [][Next]_vars

\* one upload request all of whose awaited calls (form parsing, file save,
\* probe, transport call, backoff timer) eventually return or fail; the
\* progress callback need not happen
SpecLive ==
  /\ Spec
  /\ WF_vars(\/ POST_start
             \/ parseFormData_done
             \/ saveFile_video_done
             \/ saveFile_thumbnail_done
             \/ validateVideo_done
             \/ validateThumbnail_done
             \/ videos_insert_done
             \/ thumbnails_set_done
             \/ playlistItems_insert_done
             \/ setTimeout_done)

\* retryUpload called on its own, with any maxRetries >= 1
InitRetry ==
  /\ InitCommon
  /\ NoLibraryCall
  /\ NoBrowser
  /\ NoConcurrentRequests
  /\ pc = "retryUpload"
  /\ caller = "direct"
  /\ form = [video |-> TRUE, thumbnail |-> FALSE, topic |-> TRUE,
             summary |-> TRUE, scheduleTime |-> "none"]
  /\ maxRetries \in 1..MaxRetriesBound
  /\ uploadDir = TRUE
  /\ thumbnailPath \in {"", ThumbFile}
  /\ files \in {{}, {VideoFile} \cup ({thumbnailPath} \ {""})}
  /\ ffmpegInitialized = FALSE

NextRetry ==
  \/ retryUpload_call
  \/ RetryActions

SpecRetry == InitRetry /\ [][NextRetry]_vars

\* calls of the exported validators, one after the other, on a fresh server
\* process (no upload request is running)
validateVideo_call ==
  /\ nCalls < MaxCalls
  /\ \E available \in BOOLEAN, probe \in Probes :
       LET ready == initFfmpeg(ffmpegInitialized, available) IN
       /\ ffmpegInitialized' = ready
       /\ call' = [fn |-> "validateVideo", initialized |-> ffmpegInitialized,
                   available |-> available, probe |-> probe]
       /\ ret' = validateVideo(ready, probe)
  /\ nCalls' = nCalls + 1
  /\ UNCHANGED <<browser, config, request, concurrent>>

validateThumbnail_call ==
  /\ nCalls < MaxCalls
  /\ \E image \in Images :
       /\ call' = [fn |-> "validateThumbnail", image |-> image]
       /\ ret' = validateThumbnail(image)
  /\ nCalls' = nCalls + 1
  /\ UNCHANGED <<browser, config, request, ffmpegInitialized, concurrent>>

\* no upload request is running
NoRequest ==
  /\ InitCommon
  /\ playlistId = FALSE
  /\ pc = "idle"
  /\ caller = "direct"
  /\ form = [video |-> FALSE, thumbnail |-> FALSE, topic |-> FALSE,
             summary |-> FALSE, scheduleTime |-> "none"]
  /\ maxRetries = RouteMaxRetries
  /\ uploadDir = FALSE
  /\ thumbnailPath = ""
  /\ files = {}
  /\ ffmpegInitialized = FALSE

\* no upload request is running and no tokens are stored
Idle == NoRequest /\ tokensFile = "absent"

InitValidator ==
  Idle /\ NoLibraryCall /\ NoBrowser /\ NoConcurrentRequests

NextValidator ==
  \/ validateVideo_call
  \/ validateThumbnail_call

SpecValidator == InitValidator /\ [][NextValidator]_vars

\* one call of generateMetadata (a function without state)
generateMetadata_call ==
  /\ call \in MetadataCalls
  /\ nCalls = 0
  /\ ret' = generateMetadata(call.topic, call.summary, call.language,
                             call.pick, call.customTags)
  /\ nCalls' = 1
  /\ UNCHANGED <<browser, config, request, ffmpegInitialized, call,
                 concurrent>>

InitMetadata ==
  /\ Idle
  /\ NoBrowser
  /\ NoConcurrentRequests
  /\ call \in MetadataCalls
  /\ ret = NoCall
  /\ nCalls = 0

NextMetadata == generateMetadata_call

SpecMetadata == InitMetadata /\ [][NextMetadata]_vars

----------------------------------------------------------------------------
(* Two POST requests served by one process, sharing uploads/. Each request *)
(* is followed through its file operations on its own videoPath: the       *)
(* requests carry no thumbnail and the stored tokens are valid.            *)

\* the server's clock moves on between two steps
Date_tick ==
  /\ clock < MaxClock
  /\ clock' = clock + 1
  /\ UNCHANGED <<browser, config, request, ffmpegInitialized, library,
                 rpc, rname, rattempt, disk, accesses>>

\* the part of the state a request's synchronous code changes
CurTwo == [rpc |-> rpc, rattempt |-> rattempt, disk |-> disk,
           accesses |-> accesses]

CommitTwo(t) ==
  /\ rpc' = t.rpc
  /\ rattempt' = t.rattempt
  /\ disk' = t.disk
  /\ accesses' = t.accesses

\* a file operation of request r on its videoPath, with the request whose
\* bytes the file holds at that moment (0: the file is missing)
Access(t, r, op) ==
  [t EXCEPT !.accesses = @ \cup {[by |-> r, op |-> op, name |-> rname[r],
                                   writer |-> t.disk[rname[r]]]}]

At(t, r, where) == [t EXCEPT !.rpc[r] = where]

\* an unlinkSync that empties uploads/
DiskUnlink_all(d, name) == [n \in DOMAIN d |-> 0]

\* fs.unlinkSync(videoPath)
DiskUnlink(d, name) == [d EXCEPT ![name] = 0]

\* after retryUpload: unlinkSync(videoPath) throws if the file is missing
\* (the catch sends Error), else removes it; the stream ends either way
CleanupTwo(t, r) ==
  LET t1 == Access(t, r, "unlinkSync") IN
  IF t.disk[rname[r]] = 0
  THEN At(t1, r, "done")
  ELSE At([t1 EXCEPT !.disk = DiskUnlink(@, rname[r])], r, "done")

\* a failed attempt of retryUpload: wait and try again, or give up
AttemptFailedTwo(t, r) ==
  IF NeedsWait(t.rattempt[r], RouteMaxRetries)
  THEN At(t, r, "setTimeout")
  ELSE CleanupTwo(t, r)

\* uploadVideo: statSync(videoPath) throws if the file is missing, which
\* uploadVideo turns into a failed attempt; else videos.insert is awaited
\* with a stream on the file
StartAttemptTwo(t, r) ==
  LET t1 == Access(t, r, "statSync") IN
  IF t.disk[rname[r]] = 0
  THEN AttemptFailedTwo(t1, r)
  ELSE At(t1, r, "videos.insert")

\* const videoPath = await saveFile(video, `video_${Date.now()}.mp4`)
saveFile_two_call(r) ==
  /\ rpc[r] = "POST"
  /\ rname' = [rname EXCEPT ![r] = VideoName(clock)]
  /\ rpc' = [rpc EXCEPT ![r] = "saveFile"]
  /\ UNCHANGED <<browser, config, request, ffmpegInitialized, library,
                 clock, rattempt, disk, accesses>>

\* file.arrayBuffer() resolves and writeFileSync writes the file, replacing
\* a file of that name; a failed write ends the request with Error
saveFile_two_done(r) ==
  /\ rpc[r] = "saveFile"
  /\ \E ok \in BOOLEAN :
       CommitTwo(IF ok
                 THEN At([Access(CurTwo, r, "writeFileSync")
                            EXCEPT !.disk[rname[r]] = r], r, "validateVideo")
                 ELSE At(CurTwo, r, "done"))
  /\ UNCHANGED <<browser, config, request, ffmpegInitialized, library,
                 clock, rname>>

\* validateVideo resolves: with ffmpeg, ffprobe has read the file (a missing
\* file or failed rules end the request with Error); then metadata,
\* credentials and the first attempt of retryUpload follow synchronously
validateVideo_two_done(r) ==
  /\ rpc[r] = "validateVideo"
  /\ \E available, valid \in BOOLEAN :
       LET ready == initFfmpeg(ffmpegInitialized, available)
           t1 == IF ready THEN Access(CurTwo, r, "ffprobe") ELSE CurTwo
           t2 == [t1 EXCEPT !.rattempt[r] = 1]
       IN /\ ffmpegInitialized' = ready
          /\ CommitTwo(IF ready /\ (disk[rname[r]] = 0 \/ ~valid)
                       THEN At(t1, r, "done")
                       ELSE StartAttemptTwo(t2, r))
  /\ UNCHANGED <<browser, config, request, library, clock, rname>>

\* videos.insert resolves or rejects
videos_insert_two_done(r) ==
  /\ rpc[r] = "videos.insert"
  /\ \E ok \in BOOLEAN :
       CommitTwo(IF ok THEN CleanupTwo(CurTwo, r)
                 ELSE AttemptFailedTwo(CurTwo, r))
  /\ UNCHANGED <<browser, config, request, ffmpegInitialized, library,
                 clock, rname>>

\* the backoff delay is over: the next attempt starts
setTimeout_two_done(r) ==
  /\ rpc[r] = "setTimeout"
  /\ CommitTwo(StartAttemptTwo([CurTwo EXCEPT !.rattempt[r] = @ + 1], r))
  /\ UNCHANGED <<browser, config, request, ffmpegInitialized, library,
                 clock, rname>>

\* two requests have arrived, the stored tokens are valid
InitTwo ==
  /\ NoRequest
  /\ tokensFile = "valid"
  /\ NoLibraryCall
  /\ NoBrowser
  /\ clock = 1
  /\ rpc = [r \in Requests |-> "POST"]
  /\ rname = [r \in Requests |-> ""]
  /\ rattempt = [r \in Requests |-> 0]
  /\ disk = [n \in Names |-> 0]
  /\ accesses = {}

SpecTwo ==
  InitTwo /\ [][\/ Date_tick
                \/ \E r \in Requests : saveFile_two_call(r)
                \/ \E r \in Requests : saveFile_two_done(r)
                \/ \E r \in Requests : validateVideo_two_done(r)
                \/ \E r \in Requests : videos_insert_two_done(r)
                \/ \E r \in Requests : setTimeout_two_done(r)]_vars

----------------------------------------------------------------------------
(* The endpoints that touch .youtube-tokens.json, called while one upload  *)
(* request is served                                                       *)

\* a callback that stores what it has before the exchange has succeeded
AuthCallback_writesAlways(store, hasCode, exchange, written) ==
  IF ~hasCode THEN [status |-> 400, store |-> "noTokens"]
  ELSE IF exchange = "rejected" THEN [status |-> 500, store |-> "noTokens"]
  ELSE [status |-> 307, store |-> "valid"]

\* GET /api/auth/callback: 400 without a code, 500 when getTokenFromCode
\* throws; else writeFileSync stores {accessToken, refreshToken} (a missing
\* refresh token is left out by JSON.stringify) and the answer redirects.
\* A writeFileSync that throws gives 500 and may leave a truncated file.
AuthCallback(store, hasCode, exchange, written) ==
  IF ~hasCode THEN [status |-> 400, store |-> store]
  ELSE IF exchange = "rejected" THEN [status |-> 500, store |-> store]
  ELSE IF written = "no" THEN [status |-> 500, store |-> store]
  ELSE IF written = "truncated" THEN [status |-> 500, store |-> "corrupt"]
  ELSE [status |-> 307,
        store |-> IF exchange = "both" THEN "valid" ELSE "noTokens"]

callback_GET ==
  /\ nCalls < MaxEndpointCalls
  /\ \E hasCode \in BOOLEAN, exchange \in {"rejected", "accessOnly", "both"},
        written \in {"no", "truncated", "yes"} :
       LET r == AuthCallback(tokensFile, hasCode, exchange, written) IN
       /\ call' = [fn |-> "GET /api/auth/callback", code |-> hasCode,
                   exchange |-> exchange]
       /\ ret' = [status |-> r.status]
       /\ tokensFile' = r.store
  /\ nCalls' = nCalls + 1
  /\ UNCHANGED <<browser, caller, form, maxRetries, playlistId, request,
                 ffmpegInitialized, concurrent>>

\* GET /api/auth/status: reads the file, answers { authenticated }
status_GET ==
  /\ nCalls < MaxEndpointCalls
  /\ call' = [fn |-> "GET /api/auth/status"]
  /\ ret' = [status |-> 200, authenticated |-> Authenticated(tokensFile)]
  /\ nCalls' = nCalls + 1
  /\ UNCHANGED <<browser, config, request, ffmpegInitialized, concurrent>>

\* GET /api/auth/url: builds the consent url from the environment
url_GET ==
  /\ nCalls < MaxEndpointCalls
  /\ call' = [fn |-> "GET /api/auth/url"]
  /\ ret' = [status |-> 200, authUrl |-> TRUE]
  /\ nCalls' = nCalls + 1
  /\ UNCHANGED <<browser, config, request, ffmpegInitialized, concurrent>>

\* one complete upload request arrives while no tokens are stored
InitAuth ==
  /\ InitCommon
  /\ NoLibraryCall
  /\ NoBrowser
  /\ NoConcurrentRequests
  /\ tokensFile = "absent"
  /\ pc = "start"
  /\ caller = "POST"
  /\ form = [video |-> TRUE, thumbnail |-> TRUE, topic |-> TRUE,
             summary |-> TRUE, scheduleTime |-> "none"]
  /\ maxRetries = RouteMaxRetries
  /\ uploadDir = TRUE
  /\ files = {}
  /\ thumbnailPath = ""
  /\ ffmpegInitialized = FALSE

\* the auth endpoints are called while the request is served
SpecAuth == InitAuth /\ [][callback_GET \/ status_GET \/ url_GET \/ Next]_vars

----------------------------------------------------------------------------
(* The page reading the event stream of one response. Text is a sequence   *)
(* of units: a character, or one member of a JSON object text.             *)

Char(c) == <<"char", c>>
DataPrefix == <<Char("d"), Char("a"), Char("t"), Char("a"), Char(":"),
                Char(" ")>>
EventKeys == <<"stage", "progress", "message", "videoId", "videoUrl",
               "error">>

\* JSON.stringify of an event: the members whose value is undefined are
\* left out
RECURSIVE Members(_, _)
Members(ev, i) ==
  IF i > Len(EventKeys) THEN <<>>
  ELSE LET k == EventKeys[i] IN
       (IF k \in {"videoId", "videoUrl", "error"} /\ ev[k] = Absent THEN <<>>
        ELSE << <<k, ev[k]>> >>)
         \o Members(ev, i + 1)

\* JSON.parse succeeds on a complete object text only
Parses(text) ==
  /\ Len(text) >= 2
  /\ text[1] = Char("{")
  /\ text[Len(text)] = Char("}")
  /\ \A i \in 2..(Len(text) - 1) : text[i][1] # "char"

\* the parsed object; a member that is not there reads as undefined
Parse(text) ==
  [k \in {EventKeys[i] : i \in 1..Len(EventKeys)} |->
     IF \E i \in 2..(Len(text) - 1) : text[i][1] = k
     THEN (CHOOSE u \in {text[i] : i \in 2..(Len(text) - 1)} : u[1] = k)[2]
     ELSE Absent]

\* chunk.split('\n')
RECURSIVE Split(_, _)
Split(text, line) ==
  IF text = <<>> THEN <<line>>
  ELSE IF Head(text) = Char("\n")
       THEN <<line>> \o Split(Tail(text), <<>>)
       ELSE Split(Tail(text), Append(line, Head(text)))

\* the body of the for loop: if (line.startsWith('data: ')) JSON.parse(line.slice(6)) and setUploadStatus,
\* a parse error being logged and dropped
HandleLine(status, line) ==
  IF /\ Len(line) >= Len(DataPrefix)
     /\ SubSeq(line, 1, Len(DataPrefix)) = DataPrefix
     /\ Parses(SubSeq(line, 7, Len(line)))
  THEN Some(Parse(SubSeq(line, 7, Len(line))))
  ELSE status

RECURSIVE HandleLines(_, _)
HandleLines(status, lines) ==
  IF lines = <<>> THEN status
  ELSE HandleLines(HandleLine(status, Head(lines)), Tail(lines))

\* send(data): controller.enqueue of the next frame,
\* `data: ${JSON.stringify(data)}\n\n`
controller_enqueue ==
  /\ sent < Len(script)
  /\ ~streamClosed
  /\ wire' = wire \o DataPrefix \o <<Char("{")>>
                  \o Members(script[sent + 1], 1) \o <<Char("}")>>
                  \o <<Char("\n"), Char("\n")>>
  /\ sent' = sent + 1
  /\ UNCHANGED <<config, request, ffmpegInitialized, library, concurrent,
                 script, streamClosed, uploadStatus, reader>>

\* controller.close() after the last event
controller_close ==
  /\ sent = Len(script)
  /\ ~streamClosed
  /\ streamClosed' = TRUE
  /\ UNCHANGED <<config, request, ffmpegInitialized, library, concurrent,
                 script, sent, wire, uploadStatus, reader>>

\* reader.read() resolves with a chunk, any non-empty prefix of the text
\* on its way: one turn of the read loop
reader_read_chunk ==
  /\ reader = "reading"
  /\ wire # <<>>
  /\ \E n \in 1..Len(wire) :
       /\ uploadStatus' =
            HandleLines(uploadStatus, Split(SubSeq(wire, 1, n), <<>>))
       /\ wire' = SubSeq(wire, n + 1, Len(wire))
  /\ UNCHANGED <<config, request, ffmpegInitialized, library, concurrent,
                 script, sent, streamClosed, reader>>

\* reader.read() resolves with done: the loop ends
reader_read_done ==
  /\ reader = "reading"
  /\ wire = <<>>
  /\ streamClosed
  /\ reader' = "done"
  /\ UNCHANGED <<config, request, ffmpegInitialized, library, concurrent,
                 script, sent, streamClosed, wire, uploadStatus>>

\* the handler sends one of three event sequences (a body that is no form
\* data, no stored tokens, a successful upload without progress callback)
\* while the page reads the response
InitClient ==
  /\ Idle
  /\ NoLibraryCall
  /\ NoConcurrentRequests
  /\ script \in
       { <<EvParsing,
           EvError("An unexpected error occurred",
                   "Failed to parse body as FormData")>>,
         <<EvParsing, EvSaving, EvValidating, EvGenerating, EvAuthenticating,
           EvError("Authentication required",
                   "Please authenticate with YouTube first")>>,
         <<EvParsing, EvSaving, EvValidating, EvGenerating, EvAuthenticating,
           EvUploading, EvComplete(SuccessResult("vid1"))>> }
  /\ sent = 0
  /\ streamClosed = FALSE
  /\ wire = <<>>
  /\ uploadStatus = None
  /\ reader = "reading"

SpecClient ==
  InitClient /\ [][\/ controller_enqueue
                   \/ controller_close
                   \/ reader_read_chunk
                   \/ reader_read_done]_vars

----------------------------------------------------------------------------
(* Properties of retryUpload, checked under SpecRetry *)

\* the uploadVideo calls and the backoff waits, in the order they happened
CallsAndWaits ==
  SelectSeq(steps, LAMBDA x : x \in {"uploadVideo", "setTimeout"})

AllFailed == \A i \in 1..Len(outcomes) : ~outcomes[i].success

\* C1: retryUpload calls uploadVideo at most maxRetries times; a successful
\* attempt is the last one (no call is made after it) and its result is
\* what retryUpload returns, unchanged.
C1_AtMostNStopsAtFirstSuccess ==
  /\ uploadCalls <= maxRetries
  /\ Len(outcomes) <= uploadCalls
  /\ \A i \in 1..Len(outcomes) :
       outcomes[i].success =>
         /\ i = Len(outcomes)
         /\ uploadCalls = i
         /\ pc = "returned"
         /\ result = outcomes[i]
         /\ result.videoId = videoId

C1_Witness ==
  /\ pc = "returned"
  /\ result.success
  /\ uploadCalls = 2
  /\ maxRetries = 3

\* C2: when attempts 1..k fail and attempt k+1 succeeds, retryUpload returns
\* success, videos.insert was called exactly k+1 times, the waits are
\* 2s, 4s, ..., 2^k s, and each wait lies between two attempts.
C2_BackoffBetweenAttempts ==
  (pc = "returned" /\ Len(outcomes) > 0 /\ outcomes[Len(outcomes)].success) =>
    LET k == Len(outcomes) - 1 IN
    /\ result.success
    /\ inserts = k + 1
    /\ waits = [i \in 1..k |-> (2 ^ i) * 1000]
    /\ CallsAndWaits = [i \in 1..(2 * k + 1) |->
                          IF i % 2 = 1 THEN "uploadVideo" ELSE "setTimeout"]

C2_Witness ==
  /\ pc = "returned"
  /\ result.success
  /\ Len(outcomes) = 3
  /\ inserts = 3
  /\ waits = <<2000, 4000>>

\* C3: when every attempt fails, retryUpload makes exactly maxRetries
\* attempts, waits between attempts only (none after the last), and returns
\* success=false with "Failed after N attempts. Last error: <e>", e being
\* the error of the last attempt ('Unknown error' when that attempt's
\* message is empty).
C3_ExhaustedAfterN ==
  (pc = "returned" /\ AllFailed) =>
    LET n == maxRetries
        e == outcomes[n].error
    IN /\ Len(outcomes) = n
       /\ uploadCalls = n
       /\ Len(waits) = n - 1
       /\ CallsAndWaits = [i \in 1..(2 * n - 1) |->
                             IF i % 2 = 1 THEN "uploadVideo" ELSE "setTimeout"]
       /\ ~result.success
       /\ result.error = "Failed after " \o ToString(n)
                           \o " attempts. Last error: "
                           \o (IF e = "" THEN "Unknown error" ELSE e)

C3_Witness ==
  /\ pc = "returned"
  /\ AllFailed
  /\ maxRetries = 3
  /\ outcomes[1].error = ""
  /\ outcomes[3].error = "quotaExceeded"
  /\ Len(waits) = 2
  /\ result.error = "Failed after 3 attempts. Last error: quotaExceeded"

----------------------------------------------------------------------------
(* Properties of the event stream of one upload request, checked under Spec *)

Stages == [i \in 1..Len(events) |-> events[i].stage]

Count(stage) == Cardinality({i \in 1..Len(events) : events[i].stage = stage})

LastEvent == events[Len(events)]

Rank(stage) ==
  CASE stage = "Parsing" -> 1
    [] stage = "Saving" -> 2
    [] stage = "Validating" -> 3
    [] stage = "Generating" -> 4
    [] stage = "Authenticating" -> 5
    [] stage = "Uploading" -> 6
    [] stage = "Complete" -> 7
    [] stage = "Error" -> 7

MissingField == ~form.video \/ ~form.topic \/ ~form.summary

\* C4: the stages of a stream follow Parsing, Saving, Validating,
\* Generating, Authenticating, Uploading, then Complete or Error: the first
\* event is Parsing, every later event keeps the stage of the event before
\* it or moves to the next one (or is Error), nothing follows Complete or
\* Error, and Complete comes directly after an Uploading event.
C4_StageOrder ==
  \A i \in 1..Len(events) :
    IF i = 1 THEN events[i].stage = "Parsing"
    ELSE LET prev == events[i - 1].stage
             cur == events[i].stage
         IN /\ prev \notin {"Complete", "Error"}
            /\ \/ cur = "Error"
               \/ /\ Rank(prev) <= Rank(cur)
                  /\ Rank(cur) <= Rank(prev) + 1
            /\ cur = "Complete" => prev = "Uploading"

C4_Witness ==
  /\ pc = "done"
  /\ LastEvent.stage = "Complete"
  /\ Len(outcomes) = 2
  /\ Count("Uploading") = 3

\* C5: a request with all required fields, a valid video, no thumbnail and
\* a stored credential whose upload succeeds emits exactly Parsing, Saving,
\* Validating, Generating, Authenticating, Uploading (once or more),
\* Complete; the last event has progress 100 and a non-empty videoUrl.
C5_HappyPath ==
  (/\ pc = "done"
   /\ ~MissingField
   /\ ~form.thumbnail
   /\ tokensFile = "valid"
   /\ result.success) =>
    /\ \E n \in 1..Len(events) :
         Stages = <<"Parsing", "Saving", "Validating", "Generating",
                    "Authenticating">>
                  \o [i \in 1..n |-> "Uploading"] \o <<"Complete">>
    /\ LastEvent.progress = 100
    /\ LastEvent.videoUrl \notin {"", Absent}

C5_Witness ==
  /\ pc = "done"
  /\ ~MissingField
  /\ ~form.thumbnail
  /\ tokensFile = "valid"
  /\ result.success
  /\ Len(events) = 7
  /\ LastEvent.videoUrl = "https://www.youtube.com/watch?v=vid1"

\* C6: every failure path (a missing required field, a failed validation,
\* a missing credential, a failed upload, an exception) ends the stream
\* with exactly one Error event, which carries a message and is the last
\* event.
C6_EveryFailureEndsInOneError ==
  (pc = "done" /\ (MissingField \/ ~result.success)) =>
    /\ Count("Error") = 1
    /\ LastEvent.stage = "Error"
    /\ LastEvent.message # ""

\* C7: no stream holds both a Complete and an Error event, and no event
\* carries both a videoUrl and an error.
C7_NeverCompleteAndError ==
  /\ ~(Count("Complete") > 0 /\ Count("Error") > 0)
  /\ \A i \in 1..Len(events) :
       ~(events[i].videoUrl # Absent /\ events[i].error # Absent)

C7_Witness ==
  /\ pc = "done"
  /\ LastEvent.stage = "Complete"
  /\ LastEvent.videoUrl # Absent
  /\ LastEvent.error = Absent
  /\ Len(outcomes) = 3
  /\ ~outcomes[1].success

\* C8 as stated: progress never decreases from one event to the next.
C8_ProgressMonotonic ==
  \A i \in 1..(Len(events) - 1) :
    events[i].progress <= events[i + 1].progress

\* C8 amended: progress never decreases from one event to the next, except
\* at an Error event (which carries progress 0) and at the first progress
\* event of a retried upload attempt that follows a progress event of an
\* earlier attempt (progress restarts from the new attempt's transport
\* progress, never below 40).
C8_ProgressMonotonicWithinAttempt ==
  \A i \in 1..(Len(events) - 1) :
    \/ events[i].progress <= events[i + 1].progress
    \/ /\ events[i + 1].stage = "Error"
       /\ events[i + 1].progress = 0
    \/ /\ evAttempt[i] > 0
       /\ evAttempt[i + 1] > evAttempt[i]
       /\ events[i + 1].progress >= 40

C8_Witness ==
  /\ pc = "done"
  /\ LastEvent.stage = "Complete"
  /\ \E i \in 1..(Len(events) - 1) :
       /\ evAttempt[i] = 1
       /\ evAttempt[i + 1] = 2
       /\ events[i].progress = 100
       /\ events[i + 1].progress = 70

\* C9 as stated: each of Parsing, Saving, Validating, Generating and
\* Authenticating emits at most one event, with or without a thumbnail.
C9_OneEventPerStage ==
  \A st \in {"Parsing", "Saving", "Validating", "Generating",
             "Authenticating"} : Count(st) <= 1

\* C9 amended: each of Parsing, Saving, Generating and Authenticating emits
\* exactly one event when reached; Validating emits one event, and a
\* second one exactly when a thumbnail was supplied and the video passed
\* its validation (the thumbnail is then validated).
C9_OneEventPerStageButValidating ==
  /\ \A st \in {"Parsing", "Saving", "Generating", "Authenticating"} :
       Count(st) <= 1
  /\ Count("Validating") <= 2
  /\ Count("Validating") = 2 <=>
       \E i \in 1..Len(steps) : steps[i] = "validateThumbnail"
  /\ Count("Validating") = 2 => form.thumbnail
  /\ (form.thumbnail /\ Count("Generating") > 0) => Count("Validating") = 2
  /\ (~form.thumbnail /\ Count("Generating") > 0) => Count("Validating") = 1

C9_Witness ==
  /\ pc = "done"
  /\ form.thumbnail
  /\ Count("Validating") = 2
  /\ Count("Uploading") > 1
  /\ LastEvent.stage = "Complete"

\* C10: a request with a missing required field (video, topic or summary)
\* ends with an Error event before any file-system operation and before
\* validation, metadata generation or upload.
C10_MissingFieldBeforeAnyIO ==
  (pc = "done" /\ MissingField) =>
    /\ LastEvent.stage = "Error"
    /\ \A i \in 1..Len(steps) :
         steps[i] \notin {"mkdirSync uploads", "writeFileSync video",
                          "writeFileSync thumbnail", "validateVideo",
                          "validateThumbnail", "generateMetadata",
                          "retryUpload", "uploadVideo", "videos.insert"}

\* C11: when validateVideo returns valid = false, or a thumbnail is supplied
\* and validateThumbnail returns valid = false, the request ends with an
\* Error event carrying the itemized errors (joined by ", "), sends no
\* Generating, Authenticating or Uploading event and never calls
\* uploadVideo.
C11_ValidationFailureHalts ==
  \A v \in {videoValidation, thumbnailValidation} :
    (v # None /\ ~v[1].valid) =>
      /\ pc = "done"
      /\ LastEvent.stage = "Error"
      /\ LastEvent.error = Join(v[1].errors)
      /\ Count("Error") = 1
      /\ \A st \in {"Generating", "Authenticating", "Uploading"} :
           Count(st) = 0
      /\ uploadCalls = 0
      /\ \A i \in 1..Len(steps) :
           steps[i] \notin {"generateMetadata", "retryUpload", "uploadVideo"}

C11_Witness ==
  /\ pc = "done"
  /\ videoValidation # None
  /\ videoValidation[1].valid
  /\ thumbnailValidation # None
  /\ ~thumbnailValidation[1].valid
  /\ Len(thumbnailValidation[1].errors) = 2
  /\ LastEvent.error = "Thumbnail must be 1280x720 resolution, "
                       \o "Thumbnail must be under 2MB"

\* C12: when the stored credential is missing or unusable (the status
\* endpoint reports authenticated = false), a request that reaches the
\* Authenticating stage ends with an Error event sent at that stage, before
\* any Uploading event, and uploadVideo is never called.
C12_NoUploadWithoutCredential ==
  (pc = "done" /\ Count("Authenticating") > 0 /\ ~Authenticated(tokensFile))
    => /\ LastEvent.stage = "Error"
       /\ Count("Uploading") = 0
       /\ uploadCalls = 0

C14_CompleteAfterCleanup ==
  Count("Complete") > 0 =>
    /\ VideoFile \notin files
    /\ ThumbFile \notin files
    /\ Cardinality({i \in 1..Len(steps) : steps[i] = "unlinkSync"})
         = IF form.thumbnail THEN 2 ELSE 1

C14_Witness ==
  /\ pc = "done"
  /\ LastEvent.stage = "Complete"
  /\ form.thumbnail
  /\ thumbnailPath = ThumbFile
  /\ \E i \in 1..Len(steps) : steps[i] = "writeFileSync thumbnail"
  /\ files = {}

\* C15: an Uploading event forwarded from a transport progress callback
\* carries progress 40 + p * 0.6 for the transport progress p of that
\* callback; that value lies in [40, 100] for every p in [0, 100]; and
\* every event of the stream carries a progress in [0, 100].
C15_ProgressRescaled ==
  /\ (attempt > 0 /\ events # <<>> /\ evAttempt[Len(events)] = attempt) =>
       /\ LastEvent.stage = "Uploading"
       /\ 10 * LastEvent.progress = 400 + 6 * cbLast
  /\ \A p \in 0..100 : Rescale(p) >= 40 /\ Rescale(p) <= 100
  /\ \A i \in 1..Len(events) :
       /\ events[i].progress >= 0
       /\ events[i].progress <= 100
       /\ evAttempt[i] > 0 => events[i].progress >= 40

C15_Witness ==
  /\ pc = "videos.insert"
  /\ attempt = 2
  /\ cbLast = 50
  /\ evAttempt[Len(events)] = 2
  /\ LastEvent.progress = 70
  /\ LastEvent.message = "Uploading video: 50.0%"

----------------------------------------------------------------------------
(* Properties of the validators, checked under SpecValidator *)

\* C16: when ffmpeg is not initialized and cannot be initialized,
\* validateVideo returns valid = true with no metadata and no errors and
\* does not probe the file, so the caller's validation test passes; this
\* holds for every call, the first as well as later ones, and the
\* initialization is tried again on each call until it succeeds.
C16_UnavailableProbeNeverBlocks ==
  call.fn = "validateVideo" =>
    IF ~call.initialized /\ ~call.available
    THEN /\ ret.valid
         /\ ret.metadata = None
         /\ ret.errors = None
         /\ ~ret.probed
         /\ ~ValidationFailed(ret)
         /\ ~ffmpegInitialized
    ELSE ret.probed /\ ffmpegInitialized

C16_Witness ==
  /\ nCalls = 2
  /\ call.fn = "validateVideo"
  /\ ~call.initialized
  /\ ~call.available
  /\ call.probe = ShortProbe
  /\ ret = [valid |-> TRUE, metadata |-> None, errors |-> None,
            probed |-> FALSE]

FailedThumbnailChecks(image) ==
  (IF image.width = 1280 /\ image.height = 720 THEN 0 ELSE 1)
  + (IF image.size <= 2 * 1024 * 1024 THEN 0 ELSE 1)
  + (IF image.format \in {"jpeg", "png"} THEN 0 ELSE 1)

\* C17: for an image that can be read, validateThumbnail returns as many
\* errors as checks failed among dimensions = 1280x720, size <= 2 MiB and
\* format in {jpeg, png}, and valid = true exactly when none failed; a
\* 1920x1080 PNG under 2MB and a 1280x720 JPEG of 3MB give one error each.
C17_AllThumbnailChecksRun ==
  /\ (call.fn = "validateThumbnail" /\ call.image.err = "") =>
       /\ Len(ret.errors) = FailedThumbnailChecks(call.image)
       /\ ret.valid <=> FailedThumbnailChecks(call.image) = 0
  /\ validateThumbnail(Image("", 1920, 1080, 1000000, "png")).errors
       = <<"Thumbnail must be 1280x720 resolution">>
  /\ validateThumbnail(Image("", 1280, 720, 3 * 1024 * 1024, "jpeg")).errors
       = <<"Thumbnail must be under 2MB">>

C17_Witness ==
  /\ call.fn = "validateThumbnail"
  /\ call.image = Image("", 1920, 1080, 3 * 1024 * 1024, "gif")
  /\ ~ret.valid
  /\ Len(ret.errors) = 3

\* the aspect ratio of a probed video as a pair: the display aspect ratio
\* when ffprobe reports one, else width : height
RatioOf(probe) ==
  IF probe.display_aspect_ratio = Ratio16x9 THEN <<16, 9>>
  ELSE IF probe.display_aspect_ratio = Ratio4x3 THEN <<4, 3>>
  ELSE <<probe.width, probe.height>>

Abs(x) == IF x < 0 THEN -x ELSE x

\* the conditions a probed video violates
Violations(probe) ==
  {c \in {"duration", "width", "height", "aspectRatio", "hasAudio", "format"} :
     CASE c = "duration" -> probe.duration < 300 \/ probe.duration > 600
       [] c = "width" -> probe.width < 1920
       [] c = "height" -> probe.height < 1080
       [] c = "aspectRatio" ->
            LET r == RatioOf(probe) IN
            ~(r[2] > 0 /\ 100 * Abs(9 * r[1] - 16 * r[2]) < 9 * r[2])
       [] c = "hasAudio" -> ~probe.hasAudioStream
       [] c = "format" -> ~Includes(probe.format_name, <<"m", "p", "4">>)}

\* the itemized errors of a condition
ErrorsOf(c) ==
  CASE c = "duration" ->
         {"duration: Number must be greater than or equal to 300",
          "duration: Number must be less than or equal to 600"}
    [] c = "width" -> {"width: Number must be greater than or equal to 1920"}
    [] c = "height" ->
         {"height: Number must be greater than or equal to 1080"}
    [] c = "aspectRatio" -> {"aspectRatio: Aspect ratio must be 16:9"}
    [] c = "hasAudio" -> {"hasAudio: Video must have audio"}
    [] c = "format" -> {"format: Invalid input: must include \"mp4\""}

\* C18: with ffmpeg available and a probe that finds a video stream,
\* validateVideo returns valid = true with the metadata exactly when the
\* duration is in [300, 600], width >= 1920, height >= 1080, the aspect
\* ratio is within 0.01 of 16:9, there is an audio stream and the format
\* name contains mp4; otherwise valid = false with one error per violated
\* condition, naming it (250 s gives a duration error; 450 s at 1920x1080,
\* 16:9, with audio passes).
C18_VideoSchema ==
  /\ (/\ call.fn = "validateVideo"
      /\ ret.probed
      /\ call.probe.err = ""
      /\ call.probe.hasVideoStream) =>
       LET v == Violations(call.probe) IN
       /\ ret.valid <=> v = {}
       /\ ret.valid => /\ ret.metadata # None
                       /\ ret.metadata[1].duration = call.probe.duration
                       /\ ret.metadata[1].width = call.probe.width
                       /\ ret.errors = None
       /\ ~ret.valid =>
            /\ ret.metadata = None
            /\ Len(ret.errors) = Cardinality(v)
            /\ \A c \in v : \E i \in 1..Len(ret.errors) :
                 ret.errors[i] \in ErrorsOf(c)
  /\ validateVideo(TRUE, ShortProbe).errors
       = <<"duration: Number must be greater than or equal to 300">>
  /\ validateVideo(TRUE, GoodProbe).valid

C18_Witness ==
  /\ call.fn = "validateVideo"
  /\ call.probe = Probe("", TRUE, 601, 1280, 720, Ratio4x3, FALSE, FormatWebm)
  /\ ~ret.valid
  /\ Len(ret.errors) = 6
  /\ ret.errors[1] = "duration: Number must be less than or equal to 600"

----------------------------------------------------------------------------
(* Properties of generateMetadata, checked under SpecMetadata *)

Restricted ==
  {<<"m", "u", "r", "d", "e", "r">>,
   <<"k", "i", "l", "l", "e", "d">>,
   <<"b", "l", "o", "o", "d">>,
   <<"d", "e", "a", "t", "h">>,
   <<"v", "i", "o", "l", "e", "n", "c", "e">>,
   <<"a", "s", "s", "a", "u", "l", "t">>,
   <<"b", "r", "u", "t", "a", "l">>,
   <<"t", "o", "r", "t", "u", "r", "e">>,
   <<"s", "u", "i", "c", "i", "d", "e">>,
   <<"g", "r", "a", "p", "h", "i", "c">>}

\* word occurs in text at j as a whole word, whatever the case
WholeWordAt(text, word, j) ==
  /\ j + Len(word) - 1 <= Len(text)
  /\ \A k \in 1..Len(word) : LowerChar(text[j + k - 1]) = word[k]
  /\ j = 1 \/ text[j - 1] \notin WordChars
  /\ j + Len(word) > Len(text) \/ text[j + Len(word)] \notin WordChars

\* the whole-word matches of the restricted words in text: start and length
Matches(text) ==
  UNION {{<<j, Len(word)>> :
            j \in {i \in 1..Len(text) : WholeWordAt(text, word, i)}} :
         word \in Restricted}

NoRestrictedWord(text) == Matches(text) = {}

\* masked is raw with every whole-word match of a restricted word replaced
\* by its first character followed by asterisks, and nothing else changed
MaskOf(raw, masked) ==
  LET matches == Matches(raw) IN
  /\ Len(masked) = Len(raw)
  /\ \A i \in 1..Len(raw) :
       IF \E m \in matches : m[1] < i /\ i < m[1] + m[2]
       THEN masked[i] = "*"
       ELSE masked[i] = raw[i]

\* C19: for every topic, summary and language, the title and description
\* generateMetadata returns hold no restricted word as a case-insensitive
\* whole-word match; each is the substituted template with every such match
\* replaced by its first character followed by asterisks, so it has the
\* length of the unmasked text.
C19_NoRestrictedWordLeft ==
  (call.fn = "generateMetadata" /\ nCalls = 1) =>
    /\ NoRestrictedWord(ret.title)
    /\ NoRestrictedWord(ret.description)
    /\ MaskOf(RawTitle(call.topic, call.language, call.pick), ret.title)
    /\ MaskOf(RawDescription(call.topic, call.summary, call.language),
              ret.description)

C19_Witness ==
  /\ nCalls = 1
  /\ call.fn = "generateMetadata"
  /\ call.topic = <<"M", "u", "r", "d", "e", "r">>
  /\ call.summary = <<"S", "h", "e", " ", "w", "a", "s", " ", "K", "I", "L",
      "L", "E", "D", ";", " ", "b", "l", "o", "o", "d", "_", "d", "e", "a",
      "t", "h", ".">>
  /\ call.language = "en"
  /\ call.pick = 3
  /\ ret.title = <<"M", "*", "*", "*", "*", "*", " ", "-", " ", "A",
      " ", "C", "h", "i", "l", "l", "i", "n", "g", " ", "T", "r", "u", "e",
      " ", "S", "t", "o", "r", "y">>
  /\ Includes(ret.description, <<"S", "h", "e", " ", "w", "a", "s", " ", "K",
      "*", "*", "*", "*", "*", ";", " ", "b", "l", "o", "o", "d", "_", "d",
      "e", "a", "t", "h", ".", "\n", "\n", "I", "n", " ", "t", "h", "i", "s",
      " ", "v", "i", "d", "e", "o">>)

FirstIndex(list, v) == CHOOSE i \in 1..Len(list) :
  list[i] = v /\ \A j \in 1..(i - 1) : list[j] # v

\* C20: for every language, topic (the empty one and the ones that are
\* common tags included) and template choice, the title contains the masked
\* topic, and the tags contain the lower-cased topic, hold no duplicate and
\* no empty entry, and keep the order of first occurrence.
C20_TitleAndTagsHoldTopic ==
  (call.fn = "generateMetadata" /\ nCalls = 1) =>
    LET candidates == TagCandidates(call.topic, call.language, call.customTags)
    IN /\ Includes(ret.title, sanitizeText(call.topic))
       /\ \E i \in 1..Len(ret.tags) : ret.tags[i] = ToLowerCase(call.topic)
       /\ \A i, j \in 1..Len(ret.tags) :
            /\ i # j => ret.tags[i] # ret.tags[j]
            /\ ret.tags[i] # <<>>
            /\ \E k \in 1..Len(candidates) : candidates[k] = ret.tags[i]
            /\ i < j => FirstIndex(candidates, ret.tags[i])
                          < FirstIndex(candidates, ret.tags[j])

----------------------------------------------------------------------------
(* Properties of the temp files, the platform and the stream controller,  *)
(* checked under Spec                                                      *)

HasStep(name) == \E i \in 1..Len(steps) : steps[i] = name

\* C21: a request that ends with an Error event before retryUpload was
\* called (failed video or thumbnail validation, missing credential, an
\* exception while validating, generating or authenticating) leaves the
\* temp files it saved on disk; a temp file is deleted only after
\* retryUpload has returned.
C21_EarlyErrorKeepsTempFiles ==
  /\ []((pc = "done" /\ ~HasStep("retryUpload")) =>
         /\ LastEvent.stage = "Error"
         /\ ~HasStep("unlinkSync")
         /\ HasStep("validateVideo") =>
              /\ VideoFile \in files
              /\ form.thumbnail => ThumbFile \in files)
  /\ [][\/ files \subseteq files'
        \/ result' # NoResult /\ uploadCalls' > 0]_vars

C21_Witness ==
  /\ pc = "done"
  /\ thumbnailValidation # None
  /\ ~thumbnailValidation[1].valid
  /\ LastEvent.message = "Thumbnail validation failed"
  /\ files = {VideoFile, ThumbFile}


----------------------------------------------------------------------------
(* Two requests sharing uploads/, checked under SpecTwo *)

FileAccess(a) == a.op \in {"ffprobe", "statSync", "unlinkSync"}

\* C22: while the two requests have different file names, every file a
\* request reads or deletes holds the bytes that request wrote. Two requests
\* that take their name in the same millisecond have the same name, and
\* then uploads/ holds at most one file for both, with the bytes of the
\* request that wrote last.
C22_SharedDirectory ==
  /\ rname[1] # rname[2] =>
       \A a \in accesses : FileAccess(a) => a.writer = a.by
  /\ \A r \in Requests : \A a \in accesses :
       FileAccess(a) /\ a.by = r /\ a.writer # r =>
          /\ rname[1] = rname[2]
          /\ \E b \in accesses : b.by # r /\ b.name = a.name
                                  /\ b.op \in {"writeFileSync", "unlinkSync"}
  /\ \A r \in Requests :
       rname[r] # "" => rname[r] \in Names
  /\ \A n \in Names : disk[n] # 0 => rname[disk[n]] = n

\* request 1 is uploading while its file holds the bytes of request 2, or
\* is gone
C22_Witness ==
  /\ rname[1] = rname[2]
  /\ rpc[1] = "videos.insert"
  /\ disk[rname[1]] # 1
  /\ \E a \in accesses : a.by = 1 /\ a.op = "statSync" /\ a.writer = 1


----------------------------------------------------------------------------
(* The platform and the stream controller, checked under Spec *)

\* C26: one upload request creates at most one video on the platform:
\* over all attempts of retryUpload, videos.insert succeeds at most once.
C26_AtMostOneVideo == created <= 1

\* C27: a request whose event stream ends with an Error event has created
\* no video on the platform.
C27_ErrorMeansNoVideo ==
  (pc = "done" /\ LastEvent.stage = "Error") => created = 0

\* C28: the stream controller is closed exactly once on every path: close
\* is never called on a closed controller, the stream of a finished request
\* is closed, and nothing happens on the stream after it is closed.
C28_ClosedExactlyOnce ==
  /\ ~closeThrew
  /\ pc = "done" => closed
  /\ closed => pc = "done"

----------------------------------------------------------------------------
(* The credential store, checked under SpecAuth *)

IsCallback(c) == c.fn = "GET /api/auth/callback"

\* C25: .youtube-tokens.json changes only in a step of the OAuth callback
\* whose code was exchanged successfully; a callback without a code
\* answers 400 and one whose code is rejected answers 500, both leaving the
\* file as it was; the upload request, the status endpoint and the auth-url
\* endpoint never change it.
C25_OnlyCallbackWritesTokens ==
  [][/\ tokensFile' # tokensFile =>
          /\ nCalls' = nCalls + 1
          /\ IsCallback(call')
          /\ call'.code
          /\ call'.exchange # "rejected"
     /\ (nCalls' = nCalls + 1 /\ IsCallback(call') /\ ~call'.code) =>
          (ret'.status = 400 /\ tokensFile' = tokensFile)
     /\ (nCalls' = nCalls + 1 /\ IsCallback(call') /\ call'.code
                             /\ call'.exchange = "rejected") =>
          (ret'.status = 500 /\ tokensFile' = tokensFile)]_vars

\* an upload that ran to Complete on the tokens the callback has stored
C25_Witness ==
  /\ pc = "done"
  /\ LastEvent.stage = "Complete"
  /\ tokensFile = "valid"
  /\ IsCallback(call)
  /\ ret.status = 307

----------------------------------------------------------------------------
(* Termination of the upload request, checked under SpecLive *)

Terminal == pc = "done" /\ closed /\ LastEvent.stage \in {"Complete", "Error"}

\* C29: if every awaited call eventually returns or fails, the request
\* eventually has sent a terminal event (Complete or Error) and closed its
\* stream; retryUpload makes at most maxRetries attempts and maxRetries - 1
\* waits, and a finished request never has an open stream or a last event
\* that is not terminal.
C29_Terminates ==
  /\ [](uploadCalls <= maxRetries /\ Len(waits) <= maxRetries - 1)
  /\ [](pc = "done" => Terminal)
  /\ <>Terminal

\* a request that ended after three attempts and two waits
C29_Witness ==
  /\ Terminal
  /\ uploadCalls = RouteMaxRetries
  /\ Len(waits) = RouteMaxRetries - 1

----------------------------------------------------------------------------
(* The page's status, checked under SpecClient *)

\* C24: when the read loop has ended, the page's uploadStatus is the last
\* event the handler sent, however the text was cut into chunks.
C24_ClientShowsLastEvent ==
  reader = "done" => uploadStatus = Some(script[Len(script)])

====
